---- MODULE Spec2Model ----
(***************************************************************************)
(* Version catalog, MySQL service descriptor, its lifecycle hooks and the  *)
(* domain check of the deployment engine:                                  *)
(*   src/src/cloud_provider/utilities.rs          (generation, resolution, *)
(*                                                 check_domain_for)       *)
(*   src/src/cloud_provider/aws/databases/mysql.rs (the MySQL catalogs,    *)
(*                                                 the MySQL descriptor,   *)
(*                                                 the lifecycle hooks)    *)
(*                                                                         *)
(* A Rust String is a sequence of one-character strings, so that           *)
(* formatting (i32 -> decimal digits, "{}.{}" concatenation) and parsing   *)
(* (split on ".") are computed and not assumed.  A HashMap<String,String>  *)
(* is a function from its key set to the values.  Option<T> is <<>> for    *)
(* None and <<x>> for Some(x).                                             *)
(***************************************************************************)
EXTENDS Integers, Sequences, FiniteSets

VARIABLES
    pc,         \* "idle" | "generated" | "merged" | "done" | "panic"
    fn,         \* the entry point of the call in progress (or of the last call)
    args,       \* Option: arguments of the last generate_supported_version call
    range,      \* the local HashMap returned by generate_supported_version
    removed,    \* the keys HashMap::remove was called with on range
    ranges,     \* the ranges extended into supported, in order
    supported,  \* the HashMap handed to get_supported_version_to_use
    name,       \* database_name
    req,        \* requested_version / version_to_check
    parsed,     \* Option: the Result of get_version_number(version_to_check)
    res,        \* Option: the Result<String, StringError> of the call
    \* MySQL service descriptor (aws/databases/mysql.rs)
    spc,        \* "none" | "constructed" | "named"
    service,    \* Option: the MySQL struct: [context, id, name, version]
    release,    \* Option: the String helm_release_name returned
    \* check_domain_for (utilities.rs)
    dpc,        \* "idle" | "next" | "try" | "ready" | "exhausted" | "returned"
    resolver,   \* "none" | "built" | "failed": what Resolver::new gave
    domains,    \* domains_to_check
    index,      \* how many domains of the list the for loop has taken
    tries,      \* retry: the calls of the operation made for the current domain
    delays,     \* retry: the delays left in the Fixed(..).take(..) iterator
    log,        \* what the call did for the current domain, in order
    finished,   \* per domain done with: the domain and its terminal event
    outcome,    \* Option: the Result<(), EngineError> of check_domain_for
    \* lifecycle hooks of the MySQL descriptor (aws/databases/mysql.rs)
    lpc,        \* "idle" | "returned" | "panicked"
    called,     \* the hooks called in this run, in order, each with its target
    steps,      \* the log lines and the external calls of the hooks, in order
    ret         \* Option: the Result<(), EngineError> the last hook returned

catalogVars == <<pc, fn, args, range, removed, ranges, supported, name, req, parsed, res>>
serviceVars == <<spc, service, release>>
domainVars == <<dpc, resolver, domains, index, tries, delays, log, finished, outcome>>
lifecycleVars == <<lpc, called, steps, ret>>
vars == <<catalogVars, serviceVars, domainVars, lifecycleVars>>

----------------------------------------------------------------------------
(* Bounds of the generic generate / remove / resolve calls                 *)

MaxMinor == 1
MaxUpdate == 1
MaxRemoved == 1

----------------------------------------------------------------------------
(* Option, Result, String                                                  *)

None == <<>>
Some(x) == <<x>>
IsSome(o) == o # <<>>
Unwrap(o) == o[1]

Ok(v) == [ok |-> TRUE, val |-> v]
Err(m) == [ok |-> FALSE, val |-> m]

Dot == <<".">>
Digit == <<"0", "1", "2", "3", "4", "5", "6", "7", "8", "9">>

\* i32::to_string / "{}" of a non-negative integer: its decimal digits
RECURSIVE NatToString(_)
NatToString(n) ==
    IF n < 10 THEN <<Digit[n + 1]>>
    ELSE NatToString(n \div 10) \o <<Digit[(n % 10) + 1]>>

\* i32::to_string / "{}" of an i32
I32ToString(n) == IF n < 0 THEN <<"-">> \o NatToString(-n) ELSE NatToString(n)

\* format!("{}.{}", a, b) and format!("{}.{}.{}", a, b, c) on strings
Format2(a, b) == a \o Dot \o b
Format3(a, b, c) == a \o Dot \o b \o Dot \o c

\* str::split("."): the substrings between the dots, at least one, possibly empty
RECURSIVE SplitFrom(_, _, _)
SplitFrom(s, i, cur) ==
    IF i > Len(s) THEN <<cur>>
    ELSE IF s[i] = "." THEN <<cur>> \o SplitFrom(s, i + 1, <<>>)
    ELSE SplitFrom(s, i + 1, Append(cur, s[i]))

Split(s) == SplitFrom(s, 1, <<>>)

----------------------------------------------------------------------------
(* HashMap<String, String>                                                 *)

EmptyMap == <<>>

\* HashMap::insert: the new value replaces an old one
Insert(m, k, v) == [x \in (DOMAIN m) \cup {k} |-> IF x = k THEN v ELSE m[x]]

\* HashMap::remove
Remove(m, k) == [x \in (DOMAIN m) \ {k} |-> m[x]]

RemoveAll(m, ks) == [x \in (DOMAIN m) \ ks |-> m[x]]

\* a merge that keeps the value already there (first write wins)
ExtendKeepingOld(m, other) ==
    [x \in (DOMAIN m) \cup (DOMAIN other) |->
        IF x \in DOMAIN m THEN m[x] ELSE other[x]]

\* HashMap::extend(other): every pair of other is inserted, replacing old values
Extend(m, other) ==
    [x \in (DOMAIN m) \cup (DOMAIN other) |->
        IF x \in DOMAIN other THEN other[x] ELSE m[x]]

RECURSIVE ExtendAll(_, _)
ExtendAll(m, rs) ==
    IF rs = <<>> THEN m ELSE ExtendAll(Extend(m, Head(rs)), Tail(rs))

----------------------------------------------------------------------------
(* generate_supported_version                                              *)

\* a loop that stops one short: update_min..update_max
RECURSIVE InsertUpdatesExclusive(_, _, _, _, _, _)
InsertUpdatesExclusive(m, major, minor, from, update_max, suffix) ==
    IF from >= update_max THEN m
    ELSE LET version == Format3(I32ToString(major), I32ToString(minor), I32ToString(from))
         IN  InsertUpdatesExclusive(Insert(m, version, version \o suffix),
                                    major, minor, from + 1, update_max, suffix)

\* a loop that stores the latest update under every update's key
RECURSIVE InsertUpdatesToLatest(_, _, _, _, _, _)
InsertUpdatesToLatest(m, major, minor, from, update_max, suffix) ==
    IF from >= update_max + 1 THEN m
    ELSE LET version == Format3(I32ToString(major), I32ToString(minor), I32ToString(from))
             latest == Format3(I32ToString(major), I32ToString(minor),
                               I32ToString(update_max))
         IN  InsertUpdatesToLatest(Insert(m, version, latest \o suffix),
                                   major, minor, from + 1, update_max, suffix)

\* for update in from..update_max + 1 { insert "major.minor.update" }
RECURSIVE InsertUpdates(_, _, _, _, _, _)
InsertUpdates(m, major, minor, from, update_max, suffix) ==
    IF from >= update_max + 1 THEN m
    ELSE LET version == Format3(I32ToString(major), I32ToString(minor), I32ToString(from))
         IN  InsertUpdates(Insert(m, version, version \o suffix),
                           major, minor, from + 1, update_max, suffix)

\* if update_min == update_max { one insert } else { the loop }
InsertMinorUpdates(m, major, minor, update_min, update_max, suffix) ==
    IF update_min = update_max
    THEN LET version == Format3(I32ToString(major), I32ToString(minor), I32ToString(update_min))
         IN  Insert(m, version, version \o suffix)
    ELSE InsertUpdates(m, major, minor, update_min, update_max, suffix)

\* the value stored under the short "major.minor" key when minor_min < minor_max
ShortMinorTarget(major, minor, update_max, suffix) ==
    Format3(I32ToString(major), I32ToString(minor), I32ToString(update_max))

\* for minor in from..minor_max + 1 { short key, then the updates }
RECURSIVE InsertMinorsWithUpdates(_, _, _, _, _, _, _)
InsertMinorsWithUpdates(m, major, from, minor_max, update_min, update_max, suffix) ==
    IF from >= minor_max + 1 THEN m
    ELSE LET short == Insert(m, Format2(I32ToString(major), I32ToString(from)),
                             ShortMinorTarget(major, from, update_max, suffix))
         IN  InsertMinorsWithUpdates(
                 InsertMinorUpdates(short, major, from, update_min, update_max, suffix),
                 major, from + 1, minor_max, update_min, update_max, suffix)

\* for minor in from..minor_max + 1 { insert "major.minor" }
RECURSIVE InsertMinors(_, _, _, _, _)
InsertMinors(m, major, from, minor_max, suffix) ==
    IF from >= minor_max + 1 THEN m
    ELSE LET version == Format2(I32ToString(major), I32ToString(from))
         IN  InsertMinors(Insert(m, version, version \o suffix),
                          major, from + 1, minor_max, suffix)

\* update_min is Some and update_max is None: update_max.unwrap() panics
GeneratePanics(update_min, update_max) == IsSome(update_min) /\ ~IsSome(update_max)

\* a generator whose "major" key targets the first minor of the range
GenerateSupportedVersionFirstMinor(major, minor_min, minor_max, update_min, update_max, suffix_version) ==
    LET suffix == IF IsSome(suffix_version) THEN Unwrap(suffix_version) ELSE <<>>
        latest_major_version ==
            IF IsSome(update_min)
            THEN Format3(I32ToString(major), I32ToString(minor_min),
                         I32ToString(Unwrap(update_max))) \o suffix
            ELSE Format2(I32ToString(major), I32ToString(minor_min)) \o suffix
        supported_versions ==
            IF IsSome(update_min)
            THEN IF minor_min = minor_max
                 THEN InsertMinorUpdates(
                          Insert(EmptyMap, Format2(I32ToString(major), I32ToString(minor_max)),
                                 latest_major_version),
                          major, minor_min, Unwrap(update_min), Unwrap(update_max), suffix)
                 ELSE InsertMinorsWithUpdates(EmptyMap, major, minor_min, minor_max,
                                              Unwrap(update_min), Unwrap(update_max), suffix)
            ELSE InsertMinors(EmptyMap, major, minor_min, minor_max, suffix)
    IN  Insert(supported_versions, I32ToString(major), latest_major_version)

GenerateSupportedVersion(major, minor_min, minor_max, update_min, update_max, suffix_version) ==
    LET suffix == IF IsSome(suffix_version) THEN Unwrap(suffix_version) ELSE <<>>
        latest_major_version ==
            IF IsSome(update_min)
            THEN Format3(I32ToString(major), I32ToString(minor_max),
                         I32ToString(Unwrap(update_max))) \o suffix
            ELSE Format2(I32ToString(major), I32ToString(minor_max)) \o suffix
        supported_versions ==
            IF IsSome(update_min)
            THEN IF minor_min = minor_max
                 THEN InsertMinorUpdates(
                          Insert(EmptyMap, Format2(I32ToString(major), I32ToString(minor_max)),
                                 latest_major_version),
                          major, minor_min, Unwrap(update_min), Unwrap(update_max), suffix)
                 ELSE InsertMinorsWithUpdates(EmptyMap, major, minor_min, minor_max,
                                              Unwrap(update_min), Unwrap(update_max), suffix)
            ELSE InsertMinors(EmptyMap, major, minor_min, minor_max, suffix)
    IN  Insert(supported_versions, I32ToString(major), latest_major_version)

----------------------------------------------------------------------------
(* get_version_number, get_supported_version_to_use                        *)

\* "please check the version you've sent, it can't be checked"
CantBeCheckedText ==
    <<"p", "l", "e", "a", "s", "e", " ", "c", "h", "e", "c", "k",
      " ", "t", "h", "e", " ", "v", "e", "r", "s", "i", "o", "n",
      " ", "y", "o", "u", "'", "v", "e", " ", "s", "e", "n", "t",
      ",", " ", "i", "t", " ", "c", "a", "n", "'", "t", " ", "b",
      "e", " ", "c", "h", "e", "c", "k", "e", "d">>

\* a parse that takes the last component of the request as its patch
GetVersionNumberLastAsPatch(version) ==
    LET version_split == Split(version)
    IN  IF Len(version_split) = 0
        THEN Err(CantBeCheckedText)
        ELSE Ok([major |-> version_split[1],
                 minor |-> IF Len(version_split) >= 2 THEN Some(version_split[2]) ELSE None,
                 patch |-> IF Len(version_split) >= 3 THEN Some(version_split[Len(version_split)]) ELSE None])

\* VersionsNumber { major, minor, patch } from the first three split items
\* the error is returned when version_split.next() yields no first item
GetVersionNumber(version) ==
    LET version_split == Split(version)
    IN  IF Len(version_split) = 0
        THEN Err(CantBeCheckedText)
        ELSE Ok([major |-> version_split[1],
                 minor |-> IF Len(version_split) >= 2 THEN Some(version_split[2]) ELSE None,
                 patch |-> IF Len(version_split) >= 3 THEN Some(version_split[3]) ELSE None])

NotSupportedText ==
    <<" ", "v", "e", "r", "s", "i", "o", "n", " ", "i", "s", " ",
      "n", "o", "t", " ", "s", "u", "p", "p", "o", "r", "t", "e", "d">>

\* format!("{} {} version is not supported", database_name, version_to_check)
NotSupported(database_name, version_to_check) ==
    database_name \o <<" ">> \o version_to_check \o NotSupportedText

\* a lookup that falls back to the "major" key on a miss
LookupWithFallback(database_name, all_supported_versions, key, version_to_check) ==
    IF key \in DOMAIN all_supported_versions
    THEN Ok(all_supported_versions[key])
    ELSE IF Split(key)[1] \in DOMAIN all_supported_versions
    THEN Ok(all_supported_versions[Split(key)[1]])
    ELSE Err(NotSupported(database_name, version_to_check))

\* the lookup of one key: Some(version) => Ok(version), None => Err(format!(..))
Lookup(database_name, all_supported_versions, key, version_to_check) ==
    IF key \in DOMAIN all_supported_versions
    THEN Ok(all_supported_versions[key])
    ELSE Err(NotSupported(database_name, version_to_check))

\* a resolution that ignores the patch component of the request
GetSupportedVersionToUseIgnoringPatch(database_name, all_supported_versions, version_to_check) ==
    LET version == GetVersionNumber(version_to_check).val
    IN  IF ~GetVersionNumber(version_to_check).ok
        THEN GetVersionNumber(version_to_check)
        ELSE IF IsSome(version.minor)
        THEN Lookup(database_name, all_supported_versions,
                    Format2(version.major, Unwrap(version.minor)), version_to_check)
        ELSE Lookup(database_name, all_supported_versions, version.major,
                    version_to_check)

GetSupportedVersionToUse(database_name, all_supported_versions, version_to_check) ==
    LET version == GetVersionNumber(version_to_check).val
    IN  IF ~GetVersionNumber(version_to_check).ok
        THEN GetVersionNumber(version_to_check)
        ELSE IF IsSome(version.patch)
        THEN Lookup(database_name, all_supported_versions,
                    Format3(version.major, Unwrap(version.minor), Unwrap(version.patch)),
                    version_to_check)
        ELSE IF IsSome(version.minor)
        THEN Lookup(database_name, all_supported_versions,
                    Format2(version.major, Unwrap(version.minor)), version_to_check)
        ELSE Lookup(database_name, all_supported_versions, version.major,
                    version_to_check)

----------------------------------------------------------------------------
(* The per-engine catalogs                                                 *)

NameMySQL == <<"M", "y", "S", "Q", "L">>
NameRDSMySQL == <<"R", "D", "S", " ", "M", "y", "S", "Q", "L">>
NamePostgresql == <<"P", "o", "s", "t", "g", "r", "e", "s", "q", "l">>
NameMongoDB == <<"M", "o", "n", "g", "o", "D", "B">>
NameRedis == <<"R", "e", "d", "i", "s">>

\* v56.remove(..) x5, v57.remove(..) x4, v8.remove(..) x3
Removed56 ==
    {<<"5", ".", "6", ".", "4", "7">>,
     <<"5", ".", "6", ".", "4", "5">>,
     <<"5", ".", "6", ".", "4", "2">>,
     <<"5", ".", "6", ".", "3", "8">>,
     <<"5", ".", "6", ".", "3", "6">>}
Removed57 ==
    {<<"5", ".", "7", ".", "2", "9">>,
     <<"5", ".", "7", ".", "2", "7">>,
     <<"5", ".", "7", ".", "2", "0">>,
     <<"5", ".", "7", ".", "1", "8">>}
\* a denylist that forgot 8.0.18
Removed8Without18 ==
    {<<"8", ".", "0", ".", "1", "4">>,
     <<"8", ".", "0", ".", "1", "2">>}
Removed8 ==
    {<<"8", ".", "0", ".", "1", "8">>,
     <<"8", ".", "0", ".", "1", "4">>,
     <<"8", ".", "0", ".", "1", "2">>}

\* a managed catalog whose 8.0 line stops one update short of the self-hosted one
MysqlRangesManagedShort(is_managed_service) ==
    IF is_managed_service
    THEN << RemoveAll(GenerateSupportedVersion(5, 6, 6, Some(34), Some(49), None), Removed56),
            RemoveAll(GenerateSupportedVersion(5, 7, 7, Some(16), Some(31), None), Removed57),
            RemoveAll(GenerateSupportedVersion(8, 0, 0, Some(11), Some(20), None), Removed8) >>
    ELSE << GenerateSupportedVersion(5, 6, 6, Some(34), Some(49), None),
            GenerateSupportedVersion(5, 7, 7, Some(16), Some(31), None),
            GenerateSupportedVersion(8, 0, 0, Some(11), Some(21), None) >>

\* get_mysql_version: the ranges extended into supported_mysql_versions, in order
MysqlRanges(is_managed_service) ==
    IF is_managed_service
    THEN << RemoveAll(GenerateSupportedVersion(5, 6, 6, Some(34), Some(49), None), Removed56),
            RemoveAll(GenerateSupportedVersion(5, 7, 7, Some(16), Some(31), None), Removed57),
            RemoveAll(GenerateSupportedVersion(8, 0, 0, Some(11), Some(21), None), Removed8) >>
    ELSE << GenerateSupportedVersion(5, 6, 6, Some(34), Some(49), None),
            GenerateSupportedVersion(5, 7, 7, Some(16), Some(31), None),
            GenerateSupportedVersion(8, 0, 0, Some(11), Some(21), None) >>

MysqlName(is_managed_service) ==
    IF is_managed_service THEN NameRDSMySQL ELSE NameMySQL

\* get_self_hosted_postgres_version: v10, v11, v12
PostgresRanges ==
    << GenerateSupportedVersion(10, 1, 14, Some(0), Some(0), None),
       GenerateSupportedVersion(11, 1, 9, Some(0), Some(0), None),
       GenerateSupportedVersion(12, 2, 4, Some(0), Some(0), None) >>

\* get_self_hosted_mysql_version: v57, v8
SelfHostedMysqlRanges ==
    << GenerateSupportedVersion(5, 7, 7, Some(16), Some(31), None),
       GenerateSupportedVersion(8, 0, 0, Some(11), Some(21), None) >>

\* get_self_hosted_mongodb_version: v3.6, v4.0, v4.2, v4.4
MongodbRanges ==
    << GenerateSupportedVersion(3, 6, 6, Some(0), Some(21), None),
       GenerateSupportedVersion(4, 0, 0, Some(0), Some(21), None),
       GenerateSupportedVersion(4, 2, 2, Some(0), Some(11), None),
       GenerateSupportedVersion(4, 4, 4, Some(0), Some(2), None) >>

\* get_self_hosted_redis_version: the four inserts
RedisVersions ==
    Insert(Insert(Insert(Insert(EmptyMap,
        <<"6">>, <<"6", ".", "0", ".", "9">>),
        <<"6", ".", "0">>, <<"6", ".", "0", ".", "9">>),
        <<"5">>, <<"5", ".", "0", ".", "1", "0">>),
        <<"5", ".", "0">>, <<"5", ".", "0", ".", "1", "0">>)

----------------------------------------------------------------------------
(* Inputs of the calls                                                     *)

RangeOf(f) == {f[x] : x \in DOMAIN f}

KeysOf(rs) == UNION {DOMAIN r : r \in RangeOf(rs)}

\* requests that are no key of any catalog (empty components, a fourth
\* component, an unknown line), and Redis' patch versions
OddRequests ==
    {<<>>,
     <<".">>,
     <<"8", ".">>,
     <<"8", ".", "0", ".">>,
     <<"8", ".", "0", ".", "2", "1", ".", "5">>,
     <<"5", ".", "7", ".", "3", "1", ".">>,
     <<"1", ".", "0">>,
     <<"0", "8">>,
     <<"6", ".", "0", ".", "9">>,
     <<"5", ".", "0", ".", "1", "0">>,
     <<"6", ".", "x">>,
     <<"1", "3">>}

\* every key the catalogs generate, the removed ones included, and the odd ones
EngineRequests ==
    KeysOf(MysqlRanges(FALSE)) \cup KeysOf(PostgresRanges) \cup KeysOf(MongodbRanges)
        \cup DOMAIN RedisVersions \cup OddRequests

GenericMajors == {5}
GenericMinors == 0..MaxMinor
GenericUpdates == {None} \cup {Some(u) : u \in 0..MaxUpdate}
GenericSuffixes == {None, Some(<<"-", "x">>)}
GenericNames == {NameMySQL, NameRDSMySQL}

OddGenericRequests ==
    {<<>>,
     <<"8">>,
     <<"5", ".">>,
     <<"5", ".", "9">>,
     <<"5", ".", "0", ".", "9">>,
     <<"5", ".", "0", ".", "1", ".", "7">>,
     <<"5", ".", "1", ".">>}

GenerateArgs(major, minor_min, minor_max, update_min, update_max, suffix_version) ==
    [major |-> major, minor_min |-> minor_min, minor_max |-> minor_max,
     update_min |-> update_min, update_max |-> update_max,
     suffix_version |-> suffix_version]

\* the range as generate_supported_version returned it, before any remove
Generated(a) ==
    GenerateSupportedVersion(a.major, a.minor_min, a.minor_max,
                             a.update_min, a.update_max, a.suffix_version)

\* the requests tried on a generated range: its keys (removed ones included),
\* its values, and the odd ones
GenericRequests ==
    IF pc = "merged"
    THEN DOMAIN Generated(Unwrap(args)) \cup RangeOf(Generated(Unwrap(args)))
             \cup OddGenericRequests
    ELSE {}

----------------------------------------------------------------------------
(* The calls                                                               *)

Init ==
    /\ pc = "idle"
    /\ fn = "none"
    /\ args = None
    /\ range = EmptyMap
    /\ removed = {}
    /\ ranges = <<>>
    /\ supported = EmptyMap
    /\ name = <<>>
    /\ req = <<>>
    /\ parsed = None
    /\ res = None
    /\ spc = "none"
    /\ service = None
    /\ release = None
    /\ dpc = "idle"
    /\ domains = <<>>
    /\ index = 0
    /\ tries = 0
    /\ delays = 0
    /\ log = <<>>
    /\ finished = <<>>
    /\ outcome = None
    /\ resolver = "none"
    /\ lpc = "idle"
    /\ called = <<>>
    /\ steps = <<>>
    /\ ret = None

\* let mut v = generate_supported_version(..), into a fresh catalog
Generate(major, minor_min, minor_max, update_min, update_max, suffix_version) ==
    /\ pc = "idle"
    /\ ~GeneratePanics(update_min, update_max)
    /\ pc' = "generated"
    /\ fn' = "generic"
    /\ args' = Some(GenerateArgs(major, minor_min, minor_max,
                                 update_min, update_max, suffix_version))
    /\ range' = GenerateSupportedVersion(major, minor_min, minor_max,
                                         update_min, update_max, suffix_version)
    /\ removed' = {}
    /\ UNCHANGED <<ranges, supported, name, req, parsed, res>>
    /\ UNCHANGED <<serviceVars, domainVars, lifecycleVars>>

\* generate_supported_version(.., Some(_), None, ..): update_max.unwrap() panics
GenerateUnwrapNone(major, minor_min, minor_max, update_min, update_max, suffix_version) ==
    /\ pc = "idle"
    /\ GeneratePanics(update_min, update_max)
    /\ pc' = "panic"
    /\ fn' = "generic"
    /\ args' = Some(GenerateArgs(major, minor_min, minor_max,
                                 update_min, update_max, suffix_version))
    /\ UNCHANGED <<range, removed, ranges, supported, name, req, parsed, res>>
    /\ UNCHANGED <<serviceVars, domainVars, lifecycleVars>>

\* v.remove(key)
RemoveKey(key) ==
    /\ pc = "generated"
    /\ Cardinality(removed) < MaxRemoved
    /\ key \in DOMAIN range
    /\ range' = Remove(range, key)
    /\ removed' = removed \cup {key}
    /\ UNCHANGED <<pc, fn, args, ranges, supported, name, req, parsed, res>>
    /\ UNCHANGED <<serviceVars, domainVars, lifecycleVars>>

\* supported.extend(v)
ExtendSupported ==
    /\ pc = "generated"
    /\ pc' = "merged"
    /\ supported' = Extend(supported, range)
    /\ ranges' = Append(ranges, range)
    /\ UNCHANGED <<fn, args, range, removed, name, req, parsed, res>>
    /\ UNCHANGED <<serviceVars, domainVars, lifecycleVars>>

\* get_supported_version_to_use(database_name, supported, version_to_check)
Resolve(database_name, version_to_check) ==
    /\ pc = "merged"
    /\ pc' = "done"
    /\ name' = database_name
    /\ req' = version_to_check
    /\ res' = Some(GetSupportedVersionToUse(database_name, supported, version_to_check))
    /\ parsed' = Some(GetVersionNumber(version_to_check))
    /\ UNCHANGED <<fn, args, range, removed, ranges, supported>>
    /\ UNCHANGED <<serviceVars, domainVars, lifecycleVars>>

\* The per-engine resolvers: the catalog is built, resolved against and dropped

\* get_mysql_version (aws/databases/mysql.rs)
GetMysqlVersion(requested_version, is_managed_service) ==
    /\ pc = "idle"
    /\ pc' = "done"
    /\ fn' = IF is_managed_service THEN "mysql_managed" ELSE "mysql"
    /\ ranges' = MysqlRanges(is_managed_service)
    /\ supported' = ExtendAll(EmptyMap, MysqlRanges(is_managed_service))
    /\ name' = MysqlName(is_managed_service)
    /\ req' = requested_version
    /\ res' = Some(GetSupportedVersionToUse(MysqlName(is_managed_service),
                        ExtendAll(EmptyMap, MysqlRanges(is_managed_service)), requested_version))
    /\ parsed' = Some(GetVersionNumber(requested_version))
    /\ UNCHANGED <<args, range, removed>>
    /\ UNCHANGED <<serviceVars, domainVars, lifecycleVars>>

\* get_self_hosted_postgres_version
GetSelfHostedPostgresVersion(requested_version) ==
    /\ pc = "idle"
    /\ pc' = "done"
    /\ fn' = "self_hosted_postgres"
    /\ ranges' = PostgresRanges
    /\ supported' = ExtendAll(EmptyMap, PostgresRanges)
    /\ name' = NamePostgresql
    /\ req' = requested_version
    /\ res' = Some(GetSupportedVersionToUse(NamePostgresql,
                        ExtendAll(EmptyMap, PostgresRanges), requested_version))
    /\ parsed' = Some(GetVersionNumber(requested_version))
    /\ UNCHANGED <<args, range, removed>>
    /\ UNCHANGED <<serviceVars, domainVars, lifecycleVars>>

\* get_self_hosted_mysql_version
GetSelfHostedMysqlVersion(requested_version) ==
    /\ pc = "idle"
    /\ pc' = "done"
    /\ fn' = "self_hosted_mysql"
    /\ ranges' = SelfHostedMysqlRanges
    /\ supported' = ExtendAll(EmptyMap, SelfHostedMysqlRanges)
    /\ name' = NameMySQL
    /\ req' = requested_version
    /\ res' = Some(GetSupportedVersionToUse(NameMySQL,
                        ExtendAll(EmptyMap, SelfHostedMysqlRanges), requested_version))
    /\ parsed' = Some(GetVersionNumber(requested_version))
    /\ UNCHANGED <<args, range, removed>>
    /\ UNCHANGED <<serviceVars, domainVars, lifecycleVars>>

\* get_self_hosted_mongodb_version
GetSelfHostedMongodbVersion(requested_version) ==
    /\ pc = "idle"
    /\ pc' = "done"
    /\ fn' = "self_hosted_mongodb"
    /\ ranges' = MongodbRanges
    /\ supported' = ExtendAll(EmptyMap, MongodbRanges)
    /\ name' = NameMongoDB
    /\ req' = requested_version
    /\ res' = Some(GetSupportedVersionToUse(NameMongoDB,
                        ExtendAll(EmptyMap, MongodbRanges), requested_version))
    /\ parsed' = Some(GetVersionNumber(requested_version))
    /\ UNCHANGED <<args, range, removed>>
    /\ UNCHANGED <<serviceVars, domainVars, lifecycleVars>>

\* get_self_hosted_redis_version
GetSelfHostedRedisVersion(requested_version) ==
    /\ pc = "idle"
    /\ pc' = "done"
    /\ fn' = "self_hosted_redis"
    /\ ranges' = <<>>
    /\ supported' = RedisVersions
    /\ name' = NameRedis
    /\ req' = requested_version
    /\ res' = Some(GetSupportedVersionToUse(NameRedis, RedisVersions, requested_version))
    /\ parsed' = Some(GetVersionNumber(requested_version))
    /\ UNCHANGED <<args, range, removed>>
    /\ UNCHANGED <<serviceVars, domainVars, lifecycleVars>>

\* the call returned: its catalog and its locals are dropped
Return ==
    /\ pc = "done"
    /\ pc' = "idle"
    /\ fn' = "none"
    /\ args' = None
    /\ range' = EmptyMap
    /\ removed' = {}
    /\ ranges' = <<>>
    /\ supported' = EmptyMap
    /\ name' = <<>>
    /\ req' = <<>>
    /\ parsed' = None
    /\ res' = None
    /\ UNCHANGED <<serviceVars, domainVars, lifecycleVars>>

Next ==
    \/ \E major \in GenericMajors, minor_min \in GenericMinors, minor_max \in GenericMinors,
          update_min \in GenericUpdates, update_max \in GenericUpdates,
          suffix_version \in GenericSuffixes :
            \/ Generate(major, minor_min, minor_max, update_min, update_max, suffix_version)
            \/ GenerateUnwrapNone(major, minor_min, minor_max, update_min, update_max,
                                  suffix_version)
    \/ \E key \in DOMAIN range : RemoveKey(key)
    \/ ExtendSupported
    \/ \E database_name \in GenericNames,
          version_to_check \in GenericRequests :
            Resolve(database_name, version_to_check)
    \/ \E requested_version \in EngineRequests :
            \/ \E is_managed_service \in BOOLEAN :
                   GetMysqlVersion(requested_version, is_managed_service)
            \/ GetSelfHostedPostgresVersion(requested_version)
            \/ GetSelfHostedMysqlVersion(requested_version)
            \/ GetSelfHostedMongodbVersion(requested_version)
            \/ GetSelfHostedRedisVersion(requested_version)
    \/ Return

Spec == Init /\ [][Next]_vars

----------------------------------------------------------------------------
(* The MySQL service descriptor (aws/databases/mysql.rs)                   *)

MaxIdLen == 60

ExecutionId == "execution_id"
ContextId == "context_id"

\* the longest release name
ReleaseNameMax == 50

\* crate::string::cut(s, max): s if it is short enough, else its first max characters
Cut(s, max) == IF Len(s) <= max THEN s ELSE SubSeq(s, 1, max)

MysqlPrefix == <<"m", "y", "s", "q", "l", "-">>

\* MySQL::new: the struct, every field copied from its argument
NewMySQL(context, id, service_name, version) == [context |-> context, id |-> id, name |-> service_name, version |-> version]

\* Service::id, Service::name, Service::version
IdOf(self) == self.id
NameOf(self) == self.name
VersionOf(self) == self.version

\* a release name that cuts the id before prefixing it
HelmReleaseNameCutFirst(self) == MysqlPrefix \o Cut(IdOf(self), ReleaseNameMax)

\* MySQL::helm_release_name: cut(format!("mysql-{}", self.id()), 50)
HelmReleaseNameOf(self) == Cut(MysqlPrefix \o IdOf(self), ReleaseNameMax)

\* ids of every length up to MaxIdLen, the character telling the position
IdOfLen(n) == [i \in 1..n |-> Digit[(i % 10) + 1]]
ServiceIds == {IdOfLen(n) : n \in 0..MaxIdLen}

\* versions a caller may pass: partial, concrete, denylisted, unknown, empty
ServiceVersions ==
    {<<"8">>,
     <<"8", ".", "0">>,
     <<"8", ".", "0", ".", "2", "1">>,
     <<"8", ".", "0", ".", "1", "8">>,
     <<"5", ".", "7", ".", "3", "1">>,
     <<"5">>,
     <<"1", ".", "0">>,
     <<>>}

\* the execution contexts: with and without an expiration, dry run or not
Contexts ==
    [execution_id : {ExecutionId},
     resource_expiration_in_seconds : {None, Some(3600)},
     is_dry_run_deploy : BOOLEAN]

ServiceNames == {<<"d", "b">>, <<"s", "h", "o", "p">>}

\* MySQL::new(context, id, action, name, version, ..)
New(context, id, service_name, version) ==
    /\ spc = "none"
    /\ spc' = "constructed"
    /\ service' = Some(NewMySQL(context, id, service_name, version))
    /\ UNCHANGED <<release, catalogVars, domainVars, lifecycleVars>>

\* self.helm_release_name()
HelmReleaseName ==
    /\ spc = "constructed"
    /\ spc' = "named"
    /\ release' = Some(HelmReleaseNameOf(Unwrap(service)))
    /\ UNCHANGED <<service, catalogVars, domainVars, lifecycleVars>>

\* the descriptor is discarded after the action
Discard ==
    /\ spc \in {"constructed", "named"}
    /\ spc' = "none"
    /\ service' = None
    /\ release' = None
    /\ UNCHANGED <<catalogVars, domainVars, lifecycleVars>>

NextService ==
    \/ \E context \in Contexts, id \in ServiceIds, service_name \in ServiceNames, version \in ServiceVersions : New(context, id, service_name, version)
    \/ HelmReleaseName
    \/ Discard

SpecService == Init /\ [][NextService]_vars

----------------------------------------------------------------------------
(* check_domain_for (utilities.rs)                                         *)

MaxDomains == 2

\* Fixed::from_millis(3000).take(100)
RetryDelayMs == 3000
RetryTake == 100

DomainNames == {"a.example.com", "b.example.com"}

\* domains_to_check: every list of at most MaxDomains names, repeats included
DomainLists == UNION {[1..n -> DomainNames] : n \in 0..MaxDomains}

\* format!(template, argument), kept as the pair
Message(template, argument) == [template |-> template, argument |-> argument]

\* ProgressScope::Environment {id}, ProgressScope::Router {id}
Environment(id) == [scope |-> "Environment", id |-> id]
Router(id) == [scope |-> "Router", id |-> id]

\* ProgressInfo::new(scope, level, message, execution_id)
ProgressInfo(scope, level, message, id) == [scope |-> scope, level |-> level, message |-> message, execution_id |-> id]

\* one call of a ListenersHelper method, as the log keeps it
Listener(method, info) == [kind |-> "event", method |-> method, info |-> info]

\* one call of resolver.lookup_ip(domain), and one sleep of retry
LookupIp(domain, ok) == [kind |-> "lookup_ip", domain |-> domain, ok |-> ok]
Sleep(ms) == [kind |-> "sleep", ms |-> ms]

\* the event opening a domain
CheckEvent(domain) ==
    Listener("start_in_progress",
             ProgressInfo(Environment(ExecutionId), "Info",
                          Message("Let's check domain resolution for '{}'. Please wait, it can take some time...", domain),
                          ExecutionId))

\* the event of the closure's Err arm
InProgressEvent(domain) ==
    Listener("start_in_progress",
             ProgressInfo(Environment(ExecutionId), "Info",
                          Message("Domain resolution check for '{}' is still in progress...", domain),
                          ExecutionId))

\* a ready event scoped like the others
ReadyEventOfEnvironment(domain) ==
    Listener("started",
             ProgressInfo(Environment(ExecutionId), "Info",
                          Message("Domain {} is ready!", domain), ContextId))

\* the event of check_result's Ok arm
ReadyEvent(domain) ==
    Listener("started",
             ProgressInfo(Router(domain), "Info",
                          Message("Domain {} is ready!", domain), ContextId))

\* the event of check_result's Err arm
UnableEvent(domain) ==
    Listener("error",
             ProgressInfo(Environment(ExecutionId), "Warn",
                          Message("Unable to check domain availability for '{}'. It can be due to a too long domain propagation. Note: this is not critical.", domain),
                          ContextId))

\* an error blaming the user
ResolverErrorOfUser(execution_id, domains_to_check) ==
    [cause |-> "User", scope |-> "Engine", execution_id |-> execution_id,
     message |-> Message("Let's check domain resolution for '{}'. Please wait, it can take some time...", domains_to_check)]

\* EngineError::new(Internal, Engine, execution_id, Some(format!(.., domains)))
ResolverError(execution_id, domains_to_check) ==
    [cause |-> "Internal", scope |-> "Engine", execution_id |-> execution_id,
     message |-> Message("Let's check domain resolution for '{}'. Please wait, it can take some time...", domains_to_check)]

\* a closure that reports nothing
OperationSilent(domain, ok) == <<LookupIp(domain, ok)>>

\* the closure handed to retry: the lookup, and on Err the progress event
Operation(domain, ok) ==
    IF ok
    THEN <<LookupIp(domain, TRUE)>>
    ELSE <<LookupIp(domain, FALSE), InProgressEvent(domain)>>

\* a result that fails when a domain was given up
CheckDomainResultStrict(done) ==
    IF \E i \in 1..Len(done) : done[i].event.info.level = "Warn"
    THEN Err(ResolverError(ExecutionId, <<>>))
    ELSE Ok(<<>>)

\* the value after the loop: Ok(()), whatever the domains came to
CheckDomainResult(done) == Ok(<<>>)

\* check_domain_for(listener_helper, name_with_id, domains_to_check, ..) up to the loop
CheckDomainFor(domains_to_check, built) ==
    /\ dpc = "idle"
    /\ domains' = domains_to_check
    /\ IF built
       THEN /\ resolver' = "built"
            /\ dpc' = "next"
            /\ outcome' = None
       ELSE /\ resolver' = "failed"
            /\ dpc' = "returned"
            /\ outcome' = Some(Err(ResolverError(ExecutionId, domains_to_check)))
    /\ UNCHANGED <<index, tries, delays, log, finished, catalogVars, serviceVars, lifecycleVars>>

\* the for loop takes the next domain: the opening event, a fresh iterator
StartDomain ==
    /\ dpc = "next"
    /\ index < Len(domains)
    /\ index' = index + 1
    /\ log' = <<CheckEvent(domains[index + 1])>>
    /\ tries' = 0
    /\ delays' = RetryTake
    /\ dpc' = "try"
    /\ UNCHANGED <<resolver, domains, finished, outcome, catalogVars, serviceVars, lifecycleVars>>

\* one turn of retry::retry: the operation, then Ok, or a sleep, or giving up
Retry(ok) ==
    /\ dpc = "try"
    /\ tries' = tries + 1
    /\ IF ok
       THEN /\ log' = log \o Operation(domains[index], ok)
            /\ dpc' = "ready"
            /\ delays' = delays
       ELSE IF delays > 0
       THEN /\ log' = Append(log \o Operation(domains[index], ok), Sleep(RetryDelayMs))
            /\ dpc' = "try"
            /\ delays' = delays - 1
       ELSE /\ log' = log \o Operation(domains[index], ok)
            /\ dpc' = "exhausted"
            /\ delays' = delays
    /\ UNCHANGED <<resolver, domains, index, finished, outcome, catalogVars, serviceVars, lifecycleVars>>

\* check_result is Ok: listener_helper.started
ListenerStarted ==
    /\ dpc = "ready"
    /\ log' = Append(log, ReadyEvent(domains[index]))
    /\ finished' = Append(finished, [domain |-> domains[index], event |-> ReadyEvent(domains[index])])
    /\ dpc' = "next"
    /\ UNCHANGED <<resolver, domains, index, tries, delays, outcome, catalogVars, serviceVars, lifecycleVars>>

\* check_result is Err: listener_helper.error
ListenerError ==
    /\ dpc = "exhausted"
    /\ log' = Append(log, UnableEvent(domains[index]))
    /\ finished' = Append(finished, [domain |-> domains[index], event |-> UnableEvent(domains[index])])
    /\ dpc' = "next"
    /\ UNCHANGED <<resolver, domains, index, tries, delays, outcome, catalogVars, serviceVars, lifecycleVars>>

\* the list is through
ReturnOk ==
    /\ dpc = "next"
    /\ index = Len(domains)
    /\ outcome' = Some(CheckDomainResult(finished))
    /\ dpc' = "returned"
    /\ UNCHANGED <<resolver, domains, index, tries, delays, log, finished, catalogVars, serviceVars, lifecycleVars>>

NextDomain ==
    \/ \E domains_to_check \in DomainLists, built \in BOOLEAN : CheckDomainFor(domains_to_check, built)
    \/ StartDomain
    \/ \E ok \in BOOLEAN : Retry(ok)
    \/ ListenerStarted
    \/ ListenerError
    \/ ReturnOk

SpecDomain == Init /\ [][NextDomain]_vars

----------------------------------------------------------------------------
(* The lifecycle hooks of the MySQL descriptor (aws/databases/mysql.rs)    *)

MaxCalls == 2

Targets == {"ManagedServices", "SelfHosted"}

\* self.workspace_directory(), self.context.lib_root_dir(), environment.namespace():
\* paths are kept as their segments
WorkspaceDir == <<"workspace">>
LibRootDir == <<"lib">>
Namespace == "namespace"
KubeConfig == <<"workspace", "kubeconfig">>
AwsCredentialsEnvs == <<"AWS_ACCESS_KEY_ID", "AWS_SECRET_ACCESS_KEY">>

\* a SimpleError with a message, and one without
SimpleError == [message |-> Some(<<"e", "x", "i", "t", " ", "1">>)]
SilentError == [message |-> None]

\* what an external collaborator may answer with
Results(values) == {Ok(v) : v \in values} \cup {Err(SimpleError)}

\* helm_exec_with_upgrade_history: no row, or a row deployed or not
HelmResults == Results({None, Some([is_successfully_deployed |-> FALSE]), Some([is_successfully_deployed |-> TRUE])})

\* kubectl_exec_is_pod_ready_with_retry
PodResults == Results({None, Some(FALSE), Some(TRUE)})

\* info!, warn!, error!
LogLine(level, template, argument) == [kind |-> "log", level |-> level, template |-> template, argument |-> argument]

\* a call of an external function, with what it was given and what it answered
Call(function, arguments, result) == [kind |-> "call", function |-> function, arguments |-> arguments, result |-> result]

\* crate::template::generate_and_copy_all_files_into_dir(from, to, context)
Render(from, to, context, result) == Call("generate_and_copy_all_files_into_dir", [from |-> from, to |-> to, context |-> context], result)

\* self.engine_error_scope()
EngineErrorScope(self) == [scope |-> "Database", id |-> IdOf(self), name |-> NameOf(self)]

\* self.engine_error(cause, message)
EngineErrorOf(self, cause, message) ==
    [cause |-> cause, scope |-> EngineErrorScope(self), execution_id |-> self.context.execution_id, message |-> Some(message)]

\* cast_simple_error_to_engine_error(scope, execution_id, result)
CastSimpleErrorToEngineError(self, result) ==
    IF result.ok
    THEN result
    ELSE Err([cause |-> "Internal", scope |-> EngineErrorScope(self), execution_id |-> self.context.execution_id, message |-> result.val.message])

\* get_tfstate_name(id)
GetTfstateName(id) == <<"t", "f", "s", "t", "a", "t", "e", "-">> \o id

\* self.default_tera_context(kubernetes, environment)
DefaultTeraContext(self) == [k \in {"id", "name", "version"} |-> self[k]]

\* the inserts of tera_context that no condition guards (lines 107-133)
TeraInserts(self) ==
    [k \in {"namespace", "aws_access_key", "aws_secret_key", "eks_cluster_id", "eks_cluster_name", "fqdn_id", "fqdn",
            "database_login", "database_password", "database_port", "database_disk_size_in_gib",
            "database_instance_type", "database_disk_type", "database_ram_size_in_mib", "database_total_cpus",
            "database_fqdn", "database_id", "tfstate_suffix_name", "tfstate_name", "delete_automated_backups"} |->
        IF k = "database_id" THEN IdOf(self)
        ELSE IF k = "tfstate_name" THEN GetTfstateName(IdOf(self))
        ELSE <<k>>]

\* MySQL::tera_context: the render context, and what building it does
TeraContext(self, env) ==
    LET context == DefaultTeraContext(self)
        kubernetes_config_file_path == env.get_kubernetes_config_path
        asked == Call("get_kubernetes_config_path", [workspace_dir |-> WorkspaceDir], kubernetes_config_file_path)
        with_path ==
            IF kubernetes_config_file_path.ok
            THEN Insert(context, "kubeconfig_path", kubernetes_config_file_path.val)
            ELSE context
        with_inserts == Extend(with_path, TeraInserts(self))
    IN  [steps |->
             IF kubernetes_config_file_path.ok
             THEN <<asked, Call("create_namespace_without_labels", [namespace |-> Namespace, kube_config |-> kubernetes_config_file_path.val], Ok(<<>>))>>
             ELSE <<asked, LogLine("error", "Failed to generate the kubernetes config file path: {:?}", kubernetes_config_file_path.val)>>,
         context |->
             IF IsSome(self.context.resource_expiration_in_seconds)
             THEN Insert(with_inserts, "resource_expiration_in_seconds", self.context.resource_expiration_in_seconds)
             ELSE with_inserts]

FailsToBeDeployedText == <<"M", "y", "S", "Q", "L", " ", "d", "a", "t", "a", "b", "a", "s", "e", " ", "f", "a", "i", "l", "s", " ", "t", "o", " ", "b", "e", " ", "d", "e", "p", "l", "o", "y", "e", "d", " ", "(", "b", "e", "f", "o", "r", "e", " ", "s", "t", "a", "r", "t", ")">>

\* format!("MySQL database {} with id {} failed to start after several retries", name, id)
FailedToStartText(self) == <<"M", "y", "S", "Q", "L", " ", "d", "a", "t", "a", "b", "a", "s", "e", " ">> \o NameOf(self) \o <<" ", "w", "i", "t", "h", " ", "i", "d", " ">> \o IdOf(self) \o <<" ", "f", "a", "i", "l", "e", "d", " ", "t", "o", " ", "s", "t", "a", "r", "t", " ", "a", "f", "t", "e", "r", " ", "s", "e", "v", "e", "r", "a", "l", " ", "r", "e", "t", "r", "i", "e", "s">>

\* a message that does not say what failed
ErrorText(e) == IF IsSome(e.message) THEN Unwrap(e.message) ELSE <<>>

\* format!("Error while destroying infrastructure {}", e.message.unwrap_or(""))
ErrorWhileDestroyingText(e) == <<"E", "r", "r", "o", "r", " ", "w", "h", "i", "l", "e", " ", "d", "e", "s", "t", "r", "o", "y", "i", "n", "g", " ", "i", "n", "f", "r", "a", "s", "t", "r", "u", "c", "t", "u", "r", "e", " ">> \o (IF IsSome(e.message) THEN Unwrap(e.message) ELSE <<>>)

\* what a hook did and what it gave back
Returns(done, result) == [steps |-> done, ret |-> result]

\* labels that are always there
NamespaceLabelsAlways(self) ==
    Some(<<[name |-> <<"t", "t", "l">>,
            value |-> IF IsSome(self.context.resource_expiration_in_seconds)
                      THEN NatToString(Unwrap(self.context.resource_expiration_in_seconds))
                      ELSE <<"0">>]>>)

\* the labels of the namespace: the ttl, if the context declares an expiration
NamespaceLabels(self) ==
    IF IsSome(self.context.resource_expiration_in_seconds)
    THEN Some(<<[name |-> <<"t", "t", "l">>, value |-> NatToString(Unwrap(self.context.resource_expiration_in_seconds))]>>)
    ELSE None

\* the answers on_create may get on a ManagedServices target
CreateManagedEnvs ==
    [get_kubernetes_config_path : Results({KubeConfig}),
     common : Results({<<>>}),
     mysql : Results({<<>>}),
     external_name_svc : Results({<<>>}),
     terraform : Results({<<>>})]

\* on_create, DeploymentTarget::ManagedServices
OnCreateManagedServices(self, env) ==
    LET tera == TeraContext(self, env)
        s0 == <<LogLine("info", "deploy MySQL on AWS RDS for {}", NameOf(self))>> \o tera.steps
        s1 == Append(s0, Render(LibRootDir \o <<"aws", "services", "common">>, WorkspaceDir, tera.context, env.common))
        s2 == Append(s1, Render(LibRootDir \o <<"aws", "services", "mysql">>, WorkspaceDir, tera.context, env.mysql))
        s3 == Append(s2, Render(LibRootDir \o <<"aws", "charts", "external-name-svc">>, WorkspaceDir \o <<"external-name-svc">>, tera.context, env.external_name_svc))
        s4 == Append(s3, Call("terraform_exec_with_init_validate_plan_apply", [root_dir |-> WorkspaceDir, dry_run |-> self.context.is_dry_run_deploy], env.terraform))
    IN  IF ~env.common.ok THEN Returns(s1, CastSimpleErrorToEngineError(self, env.common))
        ELSE IF ~env.mysql.ok THEN Returns(s2, CastSimpleErrorToEngineError(self, env.mysql))
        ELSE IF ~env.external_name_svc.ok THEN Returns(s3, CastSimpleErrorToEngineError(self, env.external_name_svc))
        ELSE IF ~env.terraform.ok THEN Returns(s4, CastSimpleErrorToEngineError(self, env.terraform))
        ELSE Returns(s4, Ok(<<>>))

\* a default chart taken from the chart values
DefaultChartFromValues == LibRootDir \o <<"common", "chart_values", "mysql">>

\* the default chart, and the chart values that overwrite it
ChartValuesFrom == LibRootDir \o <<"common", "chart_values", "mysql">>
DefaultChartFrom == LibRootDir \o <<"common", "services", "mysql">>

\* a history check that lets a missing history pass
IsDeployedOrUnknown(helm_history_row) ==
    helm_history_row = None \/ Unwrap(helm_history_row).is_successfully_deployed

\* the history check: there is a row and it says deployed
IsDeployed(helm_history_row) ==
    ~(helm_history_row = None \/ ~Unwrap(helm_history_row).is_successfully_deployed)

\* a readiness match that lets an unknown state pass
IsPodReadyOrUnknown(pod) == pod.ok /\ (IsSome(pod.val) => Unwrap(pod.val))

\* the readiness match: Ok(Some(true)) and nothing else
IsPodReady(pod) == pod.ok /\ IsSome(pod.val) /\ Unwrap(pod.val)

\* the answers on_create may get on a SelfHosted target
CreateSelfHostedEnvs ==
    [get_kubernetes_config_path : Results({KubeConfig}),
     kubernetes_config_path : Results({KubeConfig}),
     default_chart : Results({<<>>}),
     chart_values : Results({<<>>}),
     create_namespace : Results({<<>>}),
     helm : HelmResults,
     pod : PodResults]

\* on_create, DeploymentTarget::SelfHosted
OnCreateSelfHosted(self, env) ==
    LET tera == TeraContext(self, env)
        s0 == <<LogLine("info", "deploy MySQL on Kubernetes for {}", NameOf(self))>> \o tera.steps
        kubernetes_config_file_path == env.kubernetes_config_path
        s1 == Append(s0, Call("kubernetes_config_path", [workspace_directory |-> WorkspaceDir], kubernetes_config_file_path))
        s2 == Append(s1, Render(DefaultChartFrom, WorkspaceDir, tera.context, env.default_chart))
        s3 == Append(s2, Render(ChartValuesFrom, WorkspaceDir, tera.context, env.chart_values))
        s4 == Append(s3, Call("kubectl_exec_create_namespace", [kubernetes_config |-> kubernetes_config_file_path.val, namespace |-> Namespace, labels |-> NamespaceLabels(self), envs |-> AwsCredentialsEnvs], env.create_namespace))
        helm_history_row == env.helm
        s5 == Append(s4, Call("helm_exec_with_upgrade_history", [kubernetes_config |-> kubernetes_config_file_path.val, namespace |-> Namespace, release |-> HelmReleaseNameOf(self), chart_root_dir |-> WorkspaceDir, timeout |-> "Default", envs |-> AwsCredentialsEnvs], helm_history_row))
        s6 == Append(s5, Call("kubectl_exec_is_pod_ready_with_retry", [kubernetes_config |-> kubernetes_config_file_path.val, namespace |-> Namespace, selector |-> <<"a", "p", "p", "=">> \o NameOf(self), envs |-> AwsCredentialsEnvs], env.pod))
    IN  IF ~kubernetes_config_file_path.ok THEN Returns(s1, CastSimpleErrorToEngineError(self, kubernetes_config_file_path))
        ELSE IF ~env.default_chart.ok THEN Returns(s2, CastSimpleErrorToEngineError(self, env.default_chart))
        ELSE IF ~env.chart_values.ok THEN Returns(s3, CastSimpleErrorToEngineError(self, env.chart_values))
        ELSE IF ~env.create_namespace.ok THEN Returns(s4, CastSimpleErrorToEngineError(self, env.create_namespace))
        ELSE IF ~helm_history_row.ok THEN Returns(s5, CastSimpleErrorToEngineError(self, helm_history_row))
        ELSE IF ~IsDeployed(helm_history_row.val)
        THEN Returns(s5, Err(EngineErrorOf(self, "Internal", FailsToBeDeployedText)))
        ELSE IF IsPodReady(env.pod)
        THEN Returns(s6, Ok(<<>>))
        ELSE Returns(s6, Err(EngineErrorOf(self, "Internal", FailedToStartText(self))))

\* the answers delete may get on a ManagedServices target
DeleteManagedEnvs ==
    [get_kubernetes_config_path : Results({KubeConfig}),
     common : Results({<<>>}),
     mysql : Results({<<>>}),
     external_name_svc : Results({<<>>}),
     external_name_svc_flat : Results({<<>>}),
     terraform : Results({<<>>}) \cup {Err(SilentError)},
     delete_secret : Results({<<>>})]

\* a delete that reports a failure to delete the tfstate secret
DeleteManagedReportingSecret(self, env) ==
    LET tera == TeraContext(self, env)
        s1 == Append(tera.steps, Render(LibRootDir \o <<"aws", "services", "common">>, WorkspaceDir, tera.context, env.common))
        s2 == Append(s1, Render(LibRootDir \o <<"aws", "services", "mysql">>, WorkspaceDir, tera.context, env.mysql))
        s3 == Append(s2, Render(LibRootDir \o <<"aws", "charts", "external-name-svc">>, WorkspaceDir \o <<"external-name-svc">>, tera.context, env.external_name_svc))
        s4 == Append(s3, Render(LibRootDir \o <<"aws", "charts", "external-name-svc">>, WorkspaceDir, tera.context, env.external_name_svc_flat))
        s5 == Append(s4, Call("terraform_exec_with_init_plan_apply_destroy", [root_dir |-> WorkspaceDir], env.terraform))
        s6 == s5 \o <<LogLine("info", "Deleting secrets containing tfstates", <<>>),
                      Call("delete_terraform_tfstate_secret", [secret_name |-> GetTfstateName(IdOf(self)), workspace_dir |-> WorkspaceDir], env.delete_secret)>>
    IN  IF ~env.common.ok THEN Returns(s1, CastSimpleErrorToEngineError(self, env.common))
        ELSE IF ~env.mysql.ok THEN Returns(s2, CastSimpleErrorToEngineError(self, env.mysql))
        ELSE IF ~env.external_name_svc.ok THEN Returns(s3, CastSimpleErrorToEngineError(self, env.external_name_svc))
        ELSE IF ~env.external_name_svc_flat.ok THEN Returns(s4, CastSimpleErrorToEngineError(self, env.external_name_svc_flat))
        ELSE IF env.terraform.ok /\ env.delete_secret.ok THEN Returns(s6, Ok(<<>>))
        ELSE IF env.terraform.ok THEN Returns(s6, CastSimpleErrorToEngineError(self, env.delete_secret))
        ELSE Returns(Append(s5, LogLine("error", "{}", ErrorWhileDestroyingText(env.terraform.val))),
                     Err(EngineErrorOf(self, "Internal", ErrorWhileDestroyingText(env.terraform.val))))

\* MySQL::delete, DeploymentTarget::ManagedServices
DeleteManagedServices(self, env) ==
    LET tera == TeraContext(self, env)
        s1 == Append(tera.steps, Render(LibRootDir \o <<"aws", "services", "common">>, WorkspaceDir, tera.context, env.common))
        s2 == Append(s1, Render(LibRootDir \o <<"aws", "services", "mysql">>, WorkspaceDir, tera.context, env.mysql))
        s3 == Append(s2, Render(LibRootDir \o <<"aws", "charts", "external-name-svc">>, WorkspaceDir \o <<"external-name-svc">>, tera.context, env.external_name_svc))
        s4 == Append(s3, Render(LibRootDir \o <<"aws", "charts", "external-name-svc">>, WorkspaceDir, tera.context, env.external_name_svc_flat))
        s5 == Append(s4, Call("terraform_exec_with_init_plan_apply_destroy", [root_dir |-> WorkspaceDir], env.terraform))
    IN  IF ~env.common.ok THEN Returns(s1, CastSimpleErrorToEngineError(self, env.common))
        ELSE IF ~env.mysql.ok THEN Returns(s2, CastSimpleErrorToEngineError(self, env.mysql))
        ELSE IF ~env.external_name_svc.ok THEN Returns(s3, CastSimpleErrorToEngineError(self, env.external_name_svc))
        ELSE IF ~env.external_name_svc_flat.ok THEN Returns(s4, CastSimpleErrorToEngineError(self, env.external_name_svc_flat))
        ELSE IF env.terraform.ok
        THEN Returns(s5 \o <<LogLine("info", "Deleting secrets containing tfstates", <<>>),
                             Call("delete_terraform_tfstate_secret", [secret_name |-> GetTfstateName(IdOf(self)), workspace_dir |-> WorkspaceDir], env.delete_secret)>>,
                     Ok(<<>>))
        ELSE Returns(Append(s5, LogLine("error", "{}", ErrorWhileDestroyingText(env.terraform.val))),
                     Err(EngineErrorOf(self, "Internal", ErrorWhileDestroyingText(env.terraform.val))))

\* the answers delete may get on a SelfHosted target
DeleteSelfHostedEnvs == [cleanup : Results({<<>>})]

\* a cleanup whose failure is not reported
DeleteSelfHostedIgnoringFailure(self, env) ==
    Returns(<<Call("do_stateless_service_cleanup", [workspace_dir |-> WorkspaceDir, helm_release_name |-> HelmReleaseNameOf(self)], env.cleanup)>>, Ok(<<>>))

\* MySQL::delete, DeploymentTarget::SelfHosted
DeleteSelfHosted(self, env) ==
    LET s1 == <<Call("do_stateless_service_cleanup", [workspace_dir |-> WorkspaceDir, helm_release_name |-> HelmReleaseNameOf(self)], env.cleanup)>>
    IN  IF ~env.cleanup.ok THEN Returns(s1, CastSimpleErrorToEngineError(self, env.cleanup))
        ELSE Returns(s1, Ok(<<>>))

\* the answers a hook may get on a target
CreateEnvs(target) == IF target = "ManagedServices" THEN CreateManagedEnvs ELSE CreateSelfHostedEnvs
DeleteEnvs(target) == IF target = "ManagedServices" THEN DeleteManagedEnvs ELSE DeleteSelfHostedEnvs

\* Create::on_create
OnCreateOf(self, target, env) ==
    IF target = "ManagedServices" THEN OnCreateManagedServices(self, env) ELSE OnCreateSelfHosted(self, env)

\* MySQL::delete
DeleteOf(self, target, env) ==
    IF target = "ManagedServices" THEN DeleteManagedServices(self, env) ELSE DeleteSelfHosted(self, env)

\* Delete::on_delete: the log line, then self.delete(target)
OnDeleteOf(self, target, env) ==
    Returns(<<LogLine("info", "AWS.MySQL.on_delete() called for {}", NameOf(self))>> \o DeleteOf(self, target, env).steps,
            DeleteOf(self, target, env).ret)

\* Create::on_create_check
OnCreateCheckOf(self) == Returns(<<>>, Ok(<<>>))

\* an error hook that cleans up after the failed action
OnCreateErrorRollingBack(self, target) ==
    Returns(<<Call("do_stateless_service_cleanup", [workspace_dir |-> WorkspaceDir, helm_release_name |-> HelmReleaseNameOf(self)], Ok(<<>>))>>, Ok(<<>>))

\* Create::on_create_error
OnCreateErrorOf(self, target) ==
    Returns(<<LogLine("warn", "AWS.MySQL.on_create_error() called for {}", NameOf(self))>>, Ok(<<>>))

\* a pause that scales the release down
OnPauseScalingDown(self, target) ==
    Returns(<<Call("helm_exec_with_upgrade_history", [release |-> HelmReleaseNameOf(self)], Ok(None))>>, Ok(<<>>))

\* Pause::on_pause
OnPauseOf(self, target) ==
    Returns(<<LogLine("info", "AWS.MySQL.on_pause() called for {}", NameOf(self))>>, Ok(<<>>))

\* Pause::on_pause_check
OnPauseCheckOf(self) == Returns(<<>>, Ok(<<>>))

\* Pause::on_pause_error
OnPauseErrorOf(self, target) ==
    Returns(<<LogLine("warn", "AWS.MySQL.on_pause_error() called for {}", NameOf(self))>>, Ok(<<>>))

\* Delete::on_delete_check
OnDeleteCheckOf(self) == Returns(<<>>, Ok(<<>>))

\* Delete::on_delete_error
OnDeleteErrorOf(self, target) ==
    Returns(<<LogLine("warn", "AWS.MySQL.on_create_error() called for {}", NameOf(self))>>, Ok(<<>>))

\* the hooks whose body is unimplemented!()
UnimplementedHooks ==
    {"on_clone", "on_clone_check", "on_clone_error",
     "on_upgrade", "on_upgrade_check", "on_upgrade_error",
     "on_downgrade", "on_downgrade_check", "on_downgrade_error",
     "on_backup", "on_backup_check", "on_backup_error",
     "on_restore", "on_restore_check", "on_restore_error"}

\* the _check hooks take no target
TakesTarget(hook_name) == hook_name \notin {"on_clone_check", "on_upgrade_check", "on_downgrade_check", "on_backup_check", "on_restore_check"}
TargetsOf(hook_name) == IF TakesTarget(hook_name) THEN {Some(t) : t \in Targets} ELSE {None}

\* the descriptors the hooks are called on
LifecycleIds == {IdOfLen(5)}
LifecycleVersions == {<<"8", ".", "0">>}

\* a hook can be called: there is a descriptor, the thread has not panicked
Callable == spc # "none" /\ lpc \in {"idle", "returned"} /\ Len(called) < MaxCalls

\* on_create
OnCreate(target, env) ==
    /\ Callable /\ lpc = "idle"
    /\ called' = Append(called, [hook |-> "on_create", target |-> Some(target)])
    /\ steps' = steps \o OnCreateOf(Unwrap(service), target, env).steps
    /\ ret' = Some(OnCreateOf(Unwrap(service), target, env).ret)
    /\ lpc' = "returned"
    /\ UNCHANGED <<catalogVars, serviceVars, domainVars>>

\* on_create_check
OnCreateCheck ==
    /\ Callable
    /\ called' = Append(called, [hook |-> "on_create_check", target |-> None])
    /\ steps' = steps \o OnCreateCheckOf(Unwrap(service)).steps
    /\ ret' = Some(OnCreateCheckOf(Unwrap(service)).ret)
    /\ lpc' = "returned"
    /\ UNCHANGED <<catalogVars, serviceVars, domainVars>>

\* on_create_error
OnCreateError(target) ==
    /\ Callable
    /\ called' = Append(called, [hook |-> "on_create_error", target |-> Some(target)])
    /\ steps' = steps \o OnCreateErrorOf(Unwrap(service), target).steps
    /\ ret' = Some(OnCreateErrorOf(Unwrap(service), target).ret)
    /\ lpc' = "returned"
    /\ UNCHANGED <<catalogVars, serviceVars, domainVars>>

\* on_pause
OnPause(target) ==
    /\ Callable
    /\ called' = Append(called, [hook |-> "on_pause", target |-> Some(target)])
    /\ steps' = steps \o OnPauseOf(Unwrap(service), target).steps
    /\ ret' = Some(OnPauseOf(Unwrap(service), target).ret)
    /\ lpc' = "returned"
    /\ UNCHANGED <<catalogVars, serviceVars, domainVars>>

\* on_pause_check
OnPauseCheck ==
    /\ Callable
    /\ called' = Append(called, [hook |-> "on_pause_check", target |-> None])
    /\ steps' = steps \o OnPauseCheckOf(Unwrap(service)).steps
    /\ ret' = Some(OnPauseCheckOf(Unwrap(service)).ret)
    /\ lpc' = "returned"
    /\ UNCHANGED <<catalogVars, serviceVars, domainVars>>

\* on_pause_error
OnPauseError(target) ==
    /\ Callable
    /\ called' = Append(called, [hook |-> "on_pause_error", target |-> Some(target)])
    /\ steps' = steps \o OnPauseErrorOf(Unwrap(service), target).steps
    /\ ret' = Some(OnPauseErrorOf(Unwrap(service), target).ret)
    /\ lpc' = "returned"
    /\ UNCHANGED <<catalogVars, serviceVars, domainVars>>

\* on_delete
OnDelete(target, env) ==
    /\ Callable /\ lpc = "idle"
    /\ called' = Append(called, [hook |-> "on_delete", target |-> Some(target)])
    /\ steps' = steps \o OnDeleteOf(Unwrap(service), target, env).steps
    /\ ret' = Some(OnDeleteOf(Unwrap(service), target, env).ret)
    /\ lpc' = "returned"
    /\ UNCHANGED <<catalogVars, serviceVars, domainVars>>

\* on_delete_check
OnDeleteCheck ==
    /\ Callable
    /\ called' = Append(called, [hook |-> "on_delete_check", target |-> None])
    /\ steps' = steps \o OnDeleteCheckOf(Unwrap(service)).steps
    /\ ret' = Some(OnDeleteCheckOf(Unwrap(service)).ret)
    /\ lpc' = "returned"
    /\ UNCHANGED <<catalogVars, serviceVars, domainVars>>

\* on_delete_error
OnDeleteError(target) ==
    /\ Callable
    /\ called' = Append(called, [hook |-> "on_delete_error", target |-> Some(target)])
    /\ steps' = steps \o OnDeleteErrorOf(Unwrap(service), target).steps
    /\ ret' = Some(OnDeleteErrorOf(Unwrap(service), target).ret)
    /\ lpc' = "returned"
    /\ UNCHANGED <<catalogVars, serviceVars, domainVars>>

\* a hook whose body is unimplemented!(): the thread panics, nothing is returned
Unimplemented(hook_name, target) ==
    /\ Callable /\ lpc = "idle"
    /\ called' = Append(called, [hook |-> hook_name, target |-> target])
    /\ lpc' = "panicked"
    /\ ret' = None
    /\ UNCHANGED <<steps, catalogVars, serviceVars, domainVars>>

\* the run is over: the caller starts afresh
EndOfRun ==
    /\ lpc = "returned"
    /\ lpc' = "idle"
    /\ called' = <<>>
    /\ steps' = <<>>
    /\ ret' = None
    /\ UNCHANGED <<catalogVars, serviceVars, domainVars>>

NextLifecycle ==
    \/ \E context \in Contexts, id \in LifecycleIds, service_name \in ServiceNames, version \in LifecycleVersions : New(context, id, service_name, version)
    \/ \E target \in Targets : \E env \in CreateEnvs(target) : OnCreate(target, env)
    \/ OnCreateCheck
    \/ \E target \in Targets : OnCreateError(target)
    \/ \E target \in Targets : OnPause(target)
    \/ OnPauseCheck
    \/ \E target \in Targets : OnPauseError(target)
    \/ \E target \in Targets : \E env \in DeleteEnvs(target) : OnDelete(target, env)
    \/ OnDeleteCheck
    \/ \E target \in Targets : OnDeleteError(target)
    \/ \E hook_name \in UnimplementedHooks : \E target \in TargetsOf(hook_name) : Unimplemented(hook_name, target)
    \/ EndOfRun

SpecLifecycle == Init /\ [][NextLifecycle]_vars

----------------------------------------------------------------------------
(* Vocabulary of the properties                                            *)

Done == pc = "done"
Result == Unwrap(res)

\* the positions of the dots of a string
DotsOf(s) == {i \in 1..Len(s) : s[i] = "."}

\* the position of the n-th dot of s
NthDot(s, n) ==
    CHOOSE i \in DotsOf(s) : Cardinality({j \in DotsOf(s) : j <= i}) = n

\* the request cut before its third dot: its first three components at most
RequestKey(s) ==
    IF Cardinality(DotsOf(s)) >= 3 THEN SubSeq(s, 1, NthDot(s, 3) - 1) ELSE s

\* the request cut before its first dot: its major component
MajorOf(s) ==
    IF DotsOf(s) = {} THEN s ELSE SubSeq(s, 1, NthDot(s, 1) - 1)

\* keys of the form "major.minor.patch"
IsFullyQualified(k) == Cardinality(DotsOf(k)) = 2

WithUpdates == IsSome(args) /\ IsSome(Unwrap(args).update_min) /\ IsSome(Unwrap(args).update_max)

SuffixOf(a) == IF IsSome(a.suffix_version) THEN Unwrap(a.suffix_version) ELSE <<>>

V2(major, minor) == Format2(I32ToString(major), I32ToString(minor))
V3(major, minor, update) ==
    Format3(I32ToString(major), I32ToString(minor), I32ToString(update))

----------------------------------------------------------------------------
(* C1: the resolution looks up exactly the key of the request's own        *)
(* granularity (its first three components at most) and, on a hit,         *)
(* returns the value stored under that key unchanged.                      *)

C1_LookupBySpecificity ==
    Done => (RequestKey(req) \in DOMAIN supported
                => Result = Ok(supported[RequestKey(req)]))

\* a two-component request that hits and returns a newer patch than its key
C1_Witness ==
    /\ Done
    /\ Cardinality(DotsOf(req)) = 1
    /\ req \in DOMAIN supported
    /\ Result.ok
    /\ Result.val = supported[req]
    /\ Result.val # req

----------------------------------------------------------------------------
(* C2: when the key of the request's own granularity is absent, the        *)
(* resolution fails, whatever coarser or finer keys are present.           *)

C2_NoFallback ==
    Done => (RequestKey(req) \notin DOMAIN supported => ~Result.ok)

\* a miss on "major.minor.patch" while the coarser key "major" is present
C2_Witness ==
    /\ Done
    /\ IsFullyQualified(req)
    /\ req \notin DOMAIN supported
    /\ MajorOf(req) \in DOMAIN supported
    /\ ~Result.ok

----------------------------------------------------------------------------
(* C3: an unresolved MySQL request fails with the message                  *)
(* "this <Display Name> <requested> version is not supported".             *)

C3_ThisMessage ==
    (Done /\ fn \in {"mysql_managed", "mysql"} /\ ~Result.ok) =>
        Result.val = <<"t", "h", "i", "s", " ">>
                        \o (IF fn = "mysql_managed" THEN <<"R", "D", "S", " ", "M", "y", "S", "Q", "L">>
                            ELSE <<"M", "y", "S", "Q", "L">>)
                        \o <<" ">> \o req
                        \o <<" ", "v", "e", "r", "s", "i", "o", "n", " ", "i", "s", " ", "n", "o", "t", " ", "s", "u", "p", "p", "o", "r", "t", "e", "d">>

----------------------------------------------------------------------------
(* C4: in the managed MySQL catalog every patch of 5.6.34..49, 5.7.16..31  *)
(* and 8.0.11..21 off the denylist resolves to itself, every denylisted    *)
(* patch fails, and "8" and "8.0" resolve to "8.0.21".                     *)

ManagedPatches ==
    {V3(5, 6, u) : u \in 34..49} \cup {V3(5, 7, u) : u \in 16..31}
        \cup {V3(8, 0, u) : u \in 11..21}

ManagedDenylist ==
    {V3(5, 6, u) : u \in {47, 45, 42, 38, 36}} \cup {V3(5, 7, u) : u \in {29, 27, 20, 18}}
        \cup {V3(8, 0, u) : u \in {18, 14, 12}}

C4_ManagedCatalog ==
    (Done /\ fn = "mysql_managed") =>
        /\ req \in ManagedPatches \ ManagedDenylist => Result = Ok(req)
        /\ req \in ManagedDenylist => ~Result.ok
        /\ req \in {<<"8">>, <<"8", ".", "0">>} => Result = Ok(<<"8", ".", "0", ".", "2", "1">>)

\* the denylisted 8.0.18 was requested from the managed catalog and refused
C4_Witness ==
    /\ Done
    /\ fn = "mysql_managed"
    /\ req = <<"8", ".", "0", ".", "1", "8">>
    /\ ~Result.ok

----------------------------------------------------------------------------
(* C5: ranges merged in sequence: a key of several ranges holds the value  *)
(* of the range merged last, every other key of every range is kept; so    *)
(* the self-hosted MySQL catalog resolves "5" and "5.7" to "5.7.31",       *)
(* "5.7.31" to itself, and refuses "1.0".                                  *)

LastRangeWith(k) ==
    CHOOSE i \in 1..Len(ranges) :
        /\ k \in DOMAIN ranges[i]
        /\ \A j \in (i + 1)..Len(ranges) : k \notin DOMAIN ranges[j]

C5_LastWriteWins ==
    Done =>
        /\ \A i \in 1..Len(ranges) : \A k \in DOMAIN ranges[i] :
               /\ k \in DOMAIN supported
               /\ supported[k] = ranges[LastRangeWith(k)][k]
        /\ fn = "mysql" =>
               /\ req \in {<<"5">>, <<"5", ".", "7">>, <<"5", ".", "7", ".", "3", "1">>} => Result = Ok(<<"5", ".", "7", ".", "3", "1">>)
               /\ req = <<"1", ".", "0">> => ~Result.ok

\* "5" is a key of the 5.6 range and of the 5.7 range, with different values
C5_Witness ==
    /\ Done
    /\ fn = "mysql"
    /\ req = <<"5">>
    /\ req \in DOMAIN ranges[1] /\ req \in DOMAIN ranges[2]
    /\ ranges[1][req] # ranges[2][req]
    /\ Result = Ok(ranges[2][req])

----------------------------------------------------------------------------
(* C6: after a fully-qualified key K is removed from a range generated     *)
(* with updates, resolving K fails, and resolving a coarser key that       *)
(* mapped to K still succeeds with a version that is not K and was not     *)
(* removed.                                                                *)

\* the coarser key k mapped to K in the range as generated
MappedTo(k, K) ==
    /\ k \in DOMAIN Generated(Unwrap(args))
    /\ ~IsFullyQualified(k)
    /\ Generated(Unwrap(args))[k] \in {K, Generated(Unwrap(args))[K]}

C6_RemovedThenResolved ==
    (Done /\ fn = "generic" /\ WithUpdates) =>
        \A K \in removed : IsFullyQualified(K) =>
            /\ req = K => ~Result.ok
            /\ (MappedTo(req, K) /\ req \notin removed) =>
                   /\ Result.ok
                   /\ Result.val \notin {K, Generated(Unwrap(args))[K]}
                   /\ \E k \in DOMAIN supported :
                          IsFullyQualified(k) /\ supported[k] = Result.val

----------------------------------------------------------------------------
(* C7: in every per-engine catalog a request that resolves gets a version  *)
(* whose major equals the request's, and whose minor and patch equal the   *)
(* request's when the request has them.                                    *)

C7_ComponentsMatch ==
    (Done /\ fn # "generic" /\ Result.ok) =>
        LET asked == Split(req)
            given == Split(Result.val)
        IN  \A i \in 1..3 : i <= Len(asked) =>
                i <= Len(given) /\ given[i] = asked[i]

\* a major-only request resolved to a full version of that major
C7_Witness ==
    /\ Done
    /\ fn = "self_hosted_postgres"
    /\ Result.ok
    /\ Len(Split(req)) = 1
    /\ Len(Split(Result.val)) = 3
    /\ Split(Result.val)[1] = req

----------------------------------------------------------------------------
(* C8: in every per-engine mapping, every stored value is itself a key of  *)
(* the mapping, and that key maps to the value.                            *)

C8_ValuesAreKeys ==
    (Done /\ fn # "generic") =>
        \A k \in DOMAIN supported :
            /\ supported[k] \in DOMAIN supported
            /\ supported[supported[k]] = supported[k]

----------------------------------------------------------------------------
(* C9: generate_supported_version with update_min and update_max: the      *)
(* three-component keys of the result are exactly "major.minor.update"     *)
(* for minor in [minor_min, minor_max], update in [update_min,             *)
(* update_max], each mapped to itself followed by the suffix.              *)

JustGenerated == pc = "generated" /\ removed = {}

C9_UpdateKeys ==
    (JustGenerated /\ WithUpdates) =>
        LET a == Unwrap(args)
            minors == a.minor_min..a.minor_max
            updates == Unwrap(a.update_min)..Unwrap(a.update_max)
        IN  /\ \A minor \in minors, update \in updates :
                   /\ V3(a.major, minor, update) \in DOMAIN range
                   /\ range[V3(a.major, minor, update)]
                          = V3(a.major, minor, update) \o SuffixOf(a)
            /\ \A k \in DOMAIN range : IsFullyQualified(k) =>
                   \E minor \in minors, update \in updates :
                       k = V3(a.major, minor, update)

\* several minors, several updates and a suffix
C9_Witness ==
    /\ JustGenerated
    /\ WithUpdates
    /\ Unwrap(args).minor_min < Unwrap(args).minor_max
    /\ Unwrap(Unwrap(args).update_min) < Unwrap(Unwrap(args).update_max)
    /\ IsSome(Unwrap(args).suffix_version)
    /\ Cardinality({k \in DOMAIN range : IsFullyQualified(k)}) >= 4

----------------------------------------------------------------------------
(* C10: generate_supported_version with update_min and update_max: for     *)
(* every minor in [minor_min, minor_max] the key "major.minor" maps to     *)
(* "major.minor.update_max" followed by the suffix.                        *)

C10_ShortMinorKeys ==
    (JustGenerated /\ WithUpdates) =>
        LET a == Unwrap(args)
        IN  \A minor \in a.minor_min..a.minor_max :
                /\ V2(a.major, minor) \in DOMAIN range
                /\ range[V2(a.major, minor)]
                       = V3(a.major, minor, Unwrap(a.update_max)) \o SuffixOf(a)

----------------------------------------------------------------------------
(* C11: generate_supported_version always inserts the key "major": with    *)
(* updates it maps to "major.minor_max.update_max" + suffix; without       *)
(* updates it maps to "major.minor_max" + suffix, every "major.minor" of   *)
(* the range maps to itself + suffix, and no three-component key exists.   *)

C11_MajorKey ==
    JustGenerated =>
        LET a == Unwrap(args)
            major == I32ToString(a.major)
        IN  /\ major \in DOMAIN range
            /\ IsSome(a.update_min) =>
                   range[major] = V3(a.major, a.minor_max, Unwrap(a.update_max))
                                      \o SuffixOf(a)
            /\ ~IsSome(a.update_min) =>
                   /\ range[major] = V2(a.major, a.minor_max) \o SuffixOf(a)
                   /\ \A minor \in a.minor_min..a.minor_max :
                          /\ V2(a.major, minor) \in DOMAIN range
                          /\ range[V2(a.major, minor)] = V2(a.major, minor) \o SuffixOf(a)
                   /\ \A k \in DOMAIN range : ~IsFullyQualified(k)

\* a range without updates over several minors, with a suffix
C11_Witness ==
    /\ JustGenerated
    /\ ~IsSome(Unwrap(args).update_min)
    /\ Unwrap(args).minor_min < Unwrap(args).minor_max
    /\ IsSome(Unwrap(args).suffix_version)
    /\ range[I32ToString(Unwrap(args).major)]
           = V2(Unwrap(args).major, Unwrap(args).minor_max) \o SuffixOf(Unwrap(args))

----------------------------------------------------------------------------
(* C13: parsing a requested version returns an error if and only if the    *)
(* string is empty; otherwise minor is None exactly when the string has    *)
(* no second component and patch is None exactly when it has no third.     *)

C13_ParseErrorIffEmpty ==
    Done =>
        LET p == Unwrap(parsed)
        IN  /\ ~p.ok <=> req = <<>>
            /\ p.ok =>
                   /\ p.val.minor = None <=> Cardinality(DotsOf(req)) = 0
                   /\ p.val.patch = None <=> Cardinality(DotsOf(req)) <= 1

----------------------------------------------------------------------------
(* C14: the version a constructed MySQL descriptor holds is a concrete     *)
(* version of the MySQL catalog, never a partial or a rejected string.     *)

\* the versions get_mysql_version can return
ResolvedMysqlVersions ==
    UNION {RangeOf(ExtendAll(EmptyMap, MysqlRanges(managed))) : managed \in BOOLEAN}

C14_VersionIsResolved ==
    spc # "none" => VersionOf(Unwrap(service)) \in ResolvedMysqlVersions

----------------------------------------------------------------------------
(* C15: helm_release_name is the first 50 characters of "mysql-" + id:     *)
(* never longer than 50, exactly 50 when the id has 44 characters or       *)
(* more, and "mysql-" + id itself when that has 50 characters or fewer.    *)

C15_ReleaseName ==
    spc = "named" =>
        LET id == Unwrap(service).id
            full == <<"m", "y", "s", "q", "l", "-">> \o id
            given == Unwrap(release)
        IN  /\ Len(given) <= 50
            /\ \A i \in 1..Len(given) : given[i] = full[i]
            /\ Len(id) >= 44 => Len(given) = 50
            /\ Len(full) <= 50 => given = full

\* an id of 60 characters, named with exactly 50
C15_Witness ==
    /\ spc = "named"
    /\ Len(Unwrap(service).id) = 60
    /\ Len(Unwrap(release)) = 50
    /\ SubSeq(Unwrap(release), 1, 6) = <<"m", "y", "s", "q", "l", "-">>

----------------------------------------------------------------------------
(* Vocabulary of the domain check                                          *)

\* the places of the log where resolver.lookup_ip was called
Lookups(l) == {i \in 1..Len(l) : l[i].kind = "lookup_ip"}

\* the places of the log holding a started or an error event
Terminals(l) == {i \in 1..Len(l) : l[i].kind = "event" /\ l[i].method \in {"started", "error"}}

IsOpening(e, domain) ==
    /\ e.kind = "event"
    /\ e.method = "start_in_progress"
    /\ e.info.level = "Info"
    /\ e.info.message = [template |-> "Let's check domain resolution for '{}'. Please wait, it can take some time...", argument |-> domain]

IsStillInProgress(e, domain) ==
    /\ e.kind = "event"
    /\ e.method = "start_in_progress"
    /\ e.info.level = "Info"
    /\ e.info.message = [template |-> "Domain resolution check for '{}' is still in progress...", argument |-> domain]

IsReady(e, domain) ==
    /\ e.kind = "event"
    /\ e.method = "started"
    /\ e.info.level = "Info"
    /\ e.info.scope = [scope |-> "Router", id |-> domain]

IsWarn(e) ==
    /\ e.kind = "event"
    /\ e.method = "error"
    /\ e.info.level = "Warn"
    /\ e.info.scope.scope = "Environment"

Returned == dpc = "returned"

----------------------------------------------------------------------------
(* C16: check_domain_for returns Ok whenever the resolver was constructed, *)
(* whatever the domains and however their lookups fail, and returns an     *)
(* error only when the construction of the resolver fails.                 *)

C16_OkUnlessResolverFails ==
    Returned => (Unwrap(outcome).ok <=> resolver = "built")

\* Ok after two domains that both exhausted their retries
C16_Witness ==
    /\ Returned
    /\ Unwrap(outcome).ok
    /\ Len(finished) = 2
    /\ \A i \in 1..2 : IsWarn(finished[i].event)

----------------------------------------------------------------------------
(* C17: a hostname gets at most 100 lookups, the first included, 3000 ms   *)
(* of sleep between consecutive lookups, and none after one succeeded.     *)

C17_AtMost100Attempts ==
    /\ Cardinality(Lookups(log)) <= 100
    /\ \A i \in Lookups(log) :
           /\ (\E j \in Lookups(log) : j < i) =>
                  /\ log[i - 1] = [kind |-> "sleep", ms |-> 3000]
                  /\ log[i - 2].kind # "sleep"
           /\ log[i].ok => \A j \in Lookups(log) : j <= i
    /\ \A i \in 1..Len(log) :
           log[i].kind = "sleep" => i > 1 /\ log[i - 1].kind # "sleep"

----------------------------------------------------------------------------
(* C18: the hostnames are taken one after another in list order, each of   *)
(* them whatever became of the earlier ones, and each ends with exactly    *)
(* one terminal event: Info ready scoped to Router{id = hostname} if a     *)
(* lookup succeeded, Warn scoped to the Environment if the retries ran out.*)

C18_InOrderOneTerminal ==
    /\ Len(finished) = IF dpc \in {"try", "ready", "exhausted"} THEN index - 1 ELSE index
    /\ Len(finished) <= Len(domains)
    /\ \A i \in 1..Len(finished) :
           /\ finished[i].domain = domains[i]
           /\ IsReady(finished[i].event, domains[i]) \/ IsWarn(finished[i].event)
    /\ Returned /\ resolver = "built" => Len(finished) = Len(domains)
    /\ dpc \in {"try", "ready", "exhausted"} => Terminals(log) = {}
    /\ dpc \in {"next", "returned"} /\ index > 0 =>
           /\ Terminals(log) = {Len(log)}
           /\ log[Len(log)] = finished[index].event
           /\ IF \E i \in Lookups(log) : log[i].ok
              THEN IsReady(log[Len(log)], domains[index])
              ELSE IsWarn(log[Len(log)]) /\ delays = 0

\* a second, different hostname comes to ready after the first was given up
C18_Witness ==
    /\ Returned
    /\ Len(finished) = 2
    /\ domains[1] # domains[2]
    /\ IsWarn(finished[1].event)
    /\ IsReady(finished[2].event, domains[2])

----------------------------------------------------------------------------
(* C19: when the resolver cannot be constructed, check_domain_for returns  *)
(* an Internal error at once: no event is emitted and no domain of the     *)
(* list is looked up.                                                      *)

C19_ResolverFailureShortCircuits ==
    resolver = "failed" =>
        /\ Returned
        /\ ~Unwrap(outcome).ok
        /\ Unwrap(outcome).val.cause = "Internal"
        /\ log = <<>>
        /\ finished = <<>>
        /\ index = 0
        /\ tries = 0

\* the resolver fails with two domains to check
C19_Witness ==
    /\ resolver = "failed"
    /\ Returned
    /\ Len(domains) = 2

----------------------------------------------------------------------------
(* C20: for each hostname one Info event opens the check before the first  *)
(* lookup, and each failed lookup is followed, before the next lookup, by  *)
(* exactly one Info "still in progress" event; a lookup that succeeds is   *)
(* followed by none.                                                       *)

C20_ProgressEvents ==
    log # <<>> =>
        LET domain == domains[index]
        IN  /\ IsOpening(log[1], domain)
            /\ \A i \in 2..Len(log) : ~IsOpening(log[i], domain)
            /\ \A i \in Lookups(log) :
                   IF log[i].ok
                   THEN i < Len(log) => ~IsStillInProgress(log[i + 1], domain)
                   ELSE /\ i < Len(log)
                        /\ IsStillInProgress(log[i + 1], domain)
                        /\ i + 1 < Len(log) => ~IsStillInProgress(log[i + 2], domain)
            /\ \A i \in 1..Len(log) :
                   IsStillInProgress(log[i], domain) =>
                       /\ i > 1
                       /\ log[i - 1].kind = "lookup_ip"
                       /\ ~log[i - 1].ok

\* two lookups failed, the third succeeded: two progress events
C20_Witness ==
    /\ dpc = "ready"
    /\ tries = 3
    /\ Cardinality({i \in 1..Len(log) : IsStillInProgress(log[i], domains[index])}) = 2
    /\ log[Len(log)] = [kind |-> "lookup_ip", domain |-> domains[index], ok |-> TRUE]

----------------------------------------------------------------------------
(* Vocabulary of the lifecycle hooks                                       *)

IsCall(e) == e.kind = "call"
IsLogLine(e) == e.kind = "log"

\* the external calls of a log, in order, and the functions they went to
Calls(l) == SelectSeq(l, IsCall)
Functions(l) == [i \in 1..Len(Calls(l)) |-> Calls(l)[i].function]

\* the calls made by tera_context while building the render context
IsContextCall(e) == IsCall(e) /\ e.function \in {"get_kubernetes_config_path", "create_namespace_without_labels"}
IsBodyCall(e) == IsCall(e) /\ ~IsContextCall(e)
BodyCalls(l) == SelectSeq(l, IsBodyCall)

\* the calls of the log that went to a function
CallsTo(l, function) == {i \in 1..Len(l) : IsCall(l[i]) /\ l[i].function = function}

\* the hook is the only one called in this run, and it has returned
Ran(hook_name, target) ==
    /\ lpc = "returned"
    /\ called = <<[hook |-> hook_name, target |-> Some(target)]>>

\* the hook was called last, after a hook that had returned
RanLast(hook_name) ==
    /\ lpc = "returned"
    /\ called # <<>>
    /\ called[Len(called)].hook = hook_name

Given == Unwrap(ret)

\* t occurs in s
Contains(s, t) == \E i \in 0..(Len(s) - Len(t)) : SubSeq(s, i + 1, i + Len(t)) = t

StartsWith(s, t) == Len(s) >= Len(t) /\ SubSeq(s, 1, Len(t)) = t

----------------------------------------------------------------------------
(* C21: a SelfHosted on_create whose helm upgrade gave no history row, or  *)
(* a row that is not successfully deployed, fails with cause Internal and  *)
(* "MySQL database fails to be deployed (before start)", and never polls   *)
(* the pods.                                                               *)

NotDeployed(e) == e.result.ok /\ (e.result.val = None \/ ~Unwrap(e.result.val).is_successfully_deployed)

C21_NotDeployedFailsBeforePoll ==
    (/\ Ran("on_create", "SelfHosted")
     /\ \E i \in CallsTo(steps, "helm_exec_with_upgrade_history") : NotDeployed(steps[i])) =>
        /\ ~Given.ok
        /\ Given.val.cause = "Internal"
        /\ Given.val.message = Some(<<"M", "y", "S", "Q", "L", " ", "d", "a", "t", "a", "b", "a", "s", "e", " ", "f", "a", "i", "l", "s", " ", "t", "o", " ", "b", "e", " ", "d", "e", "p", "l", "o", "y", "e", "d", " ", "(", "b", "e", "f", "o", "r", "e", " ", "s", "t", "a", "r", "t", ")">>)
        /\ CallsTo(steps, "kubectl_exec_is_pod_ready_with_retry") = {}

\* the history row says the release is not deployed
C21_Witness ==
    /\ Ran("on_create", "SelfHosted")
    /\ \E i \in CallsTo(steps, "helm_exec_with_upgrade_history") :
           steps[i].result = [ok |-> TRUE, val |-> <<[is_successfully_deployed |-> FALSE]>>]
    /\ ~Given.ok

----------------------------------------------------------------------------
(* C22: a SelfHosted on_create returns Ok only if the pod poll answered    *)
(* Ok(Some(true)); on Ok(Some(false)), Ok(None) and Err it fails with      *)
(* cause Internal and a message naming the service name and the id.        *)

PodIsReady(e) == e.result.ok /\ e.result.val # None /\ Unwrap(e.result.val)

C22_OkOnlyIfPodReady ==
    Ran("on_create", "SelfHosted") =>
        /\ Given.ok =>
               \E i \in CallsTo(steps, "kubectl_exec_is_pod_ready_with_retry") : PodIsReady(steps[i])
        /\ \A i \in CallsTo(steps, "kubectl_exec_is_pod_ready_with_retry") :
               ~PodIsReady(steps[i]) =>
                   /\ ~Given.ok
                   /\ Given.val.cause = "Internal"
                   /\ Contains(Unwrap(Given.val.message), Unwrap(service).name)
                   /\ Contains(Unwrap(Given.val.message), Unwrap(service).id)

\* the poll answered Ok(None): the pods were not seen
C22_Witness ==
    /\ Ran("on_create", "SelfHosted")
    /\ \E i \in CallsTo(steps, "kubectl_exec_is_pod_ready_with_retry") :
           steps[i].result = [ok |-> TRUE, val |-> <<>>]
    /\ ~Given.ok
    /\ Given.val.message = Some(<<"M", "y", "S", "Q", "L", " ", "d", "a", "t", "a", "b", "a", "s", "e", " ", "d", "b", " ", "w", "i", "t", "h", " ", "i", "d", " ", "1", "2", "3", "4", "5", " ", "f", "a", "i", "l", "e", "d", " ", "t", "o", " ", "s", "t", "a", "r", "t", " ", "a", "f", "t", "e", "r", " ", "s", "e", "v", "e", "r", "a", "l", " ", "r", "e", "t", "r", "i", "e", "s">>)
    /\ Unwrap(service).name = <<"d", "b">>

----------------------------------------------------------------------------
(* C23: the steps of a SelfHosted on_create come in the order: cluster     *)
(* config path, render of the default chart, render of the chart values    *)
(* into the same directory, namespace creation, helm upgrade with history, *)
(* pod poll; a step starts only if all before it succeeded, and the error  *)
(* of the first step that fails is returned with no step after it.         *)

StepSucceeded(e) ==
    /\ e.result.ok
    /\ e.function = "helm_exec_with_upgrade_history" => ~NotDeployed(e)
    /\ e.function = "kubectl_exec_is_pod_ready_with_retry" => PodIsReady(e)

IsRender(e, from, to) ==
    /\ e.function = "generate_and_copy_all_files_into_dir"
    /\ e.arguments.from = from
    /\ e.arguments.to = to

\* the i-th step of on_create on a SelfHosted target
IsSelfHostedStep(e, i) ==
    CASE i = 1 -> e.function = "kubernetes_config_path"
      [] i = 2 -> IsRender(e, LibRootDir \o <<"common", "services", "mysql">>, WorkspaceDir)
      [] i = 3 -> IsRender(e, LibRootDir \o <<"common", "chart_values", "mysql">>, WorkspaceDir)
      [] i = 4 -> e.function = "kubectl_exec_create_namespace"
      [] i = 5 -> e.function = "helm_exec_with_upgrade_history"
      [] i = 6 -> e.function = "kubectl_exec_is_pod_ready_with_retry"
      [] OTHER -> FALSE

C23_SelfHostedStepsInOrder ==
    Ran("on_create", "SelfHosted") =>
        LET body == BodyCalls(steps)
            last == body[Len(body)]
        IN  /\ Len(body) >= 1
            /\ \A i \in 1..Len(body) : IsSelfHostedStep(body[i], i)
            /\ \A i \in 1..(Len(body) - 1) : StepSucceeded(body[i])
            /\ Given.ok <=> Len(body) = 6 /\ StepSucceeded(last)
            /\ Len(body) < 6 => ~StepSucceeded(last)
            /\ ~StepSucceeded(last) => ~Given.ok
            /\ ~last.result.ok /\ Len(body) < 6 => Given.val.message = last.result.val.message

\* the chart values fail to render: no namespace, no upgrade, no poll
C23_Witness ==
    /\ Ran("on_create", "SelfHosted")
    /\ Len(BodyCalls(steps)) = 3
    /\ BodyCalls(steps)[2].result.ok
    /\ ~BodyCalls(steps)[3].result.ok
    /\ ~Given.ok

----------------------------------------------------------------------------
(* C24: on a ManagedServices target on_create and on_delete render the     *)
(* common templates, the mysql templates, the external-name chart into     *)
(* "external-name-svc" and the same chart into the working directory, in   *)
(* this order, and call terraform only after the four renders succeeded;   *)
(* a render that fails returns an error and terraform is not called.       *)

\* the i-th render on a ManagedServices target
IsManagedRender(e, i) ==
    CASE i = 1 -> IsRender(e, LibRootDir \o <<"aws", "services", "common">>, WorkspaceDir)
      [] i = 2 -> IsRender(e, LibRootDir \o <<"aws", "services", "mysql">>, WorkspaceDir)
      [] i = 3 -> IsRender(e, LibRootDir \o <<"aws", "charts", "external-name-svc">>, WorkspaceDir \o <<"external-name-svc">>)
      [] i = 4 -> IsRender(e, LibRootDir \o <<"aws", "charts", "external-name-svc">>, WorkspaceDir)
      [] OTHER -> FALSE

IsRenderOrTerraform(e) ==
    /\ IsCall(e)
    /\ e.function \in {"generate_and_copy_all_files_into_dir", "terraform_exec_with_init_validate_plan_apply", "terraform_exec_with_init_plan_apply_destroy"}

FourRendersThen(function) ==
    LET body == SelectSeq(steps, IsRenderOrTerraform)
    IN  /\ Len(body) >= 1
        /\ Len(body) <= 5
        /\ \A i \in 1..Len(body) :
               IF i <= 4
               THEN /\ IsManagedRender(body[i], i)
                    /\ ~body[i].result.ok => i = Len(body) /\ ~Given.ok
               ELSE /\ body[i].function = function
                    /\ \A j \in 1..4 : body[j].result.ok

C24_ManagedFourRenders ==
    /\ Ran("on_create", "ManagedServices") => FourRendersThen("terraform_exec_with_init_validate_plan_apply")
    /\ Ran("on_delete", "ManagedServices") => FourRendersThen("terraform_exec_with_init_plan_apply_destroy")

----------------------------------------------------------------------------
(* C25: on a ManagedServices on_delete the tfstate secret named            *)
(* get_tfstate_name(id) is deleted if and only if the terraform destroy    *)
(* succeeded, and after it; when the destroy fails, on_delete returns an   *)
(* Internal error whose message starts with "Error while destroying        *)
(* infrastructure" and the secret is left alone.                           *)

C25_SecretDeletedIffDestroyed ==
    Ran("on_delete", "ManagedServices") =>
        LET destroy == CallsTo(steps, "terraform_exec_with_init_plan_apply_destroy")
            secret == CallsTo(steps, "delete_terraform_tfstate_secret")
        IN  /\ secret # {} <=> \E i \in destroy : steps[i].result.ok
            /\ Cardinality(secret) <= 1
            /\ \A j \in secret :
                   /\ \E i \in destroy : i < j
                   /\ steps[j].arguments.secret_name = GetTfstateName(Unwrap(service).id)
            /\ \A i \in destroy :
                   ~steps[i].result.ok =>
                       /\ ~Given.ok
                       /\ Given.val.cause = "Internal"
                       /\ StartsWith(Unwrap(Given.val.message), <<"E", "r", "r", "o", "r", " ", "w", "h", "i", "l", "e", " ", "d", "e", "s", "t", "r", "o", "y", "i", "n", "g", " ", "i", "n", "f", "r", "a", "s", "t", "r", "u", "c", "t", "u", "r", "e">>)

\* the destroy fails without a message: no secret is deleted
C25_Witness ==
    /\ Ran("on_delete", "ManagedServices")
    /\ \E i \in CallsTo(steps, "terraform_exec_with_init_plan_apply_destroy") :
           /\ ~steps[i].result.ok
           /\ steps[i].result.val.message = None
    /\ CallsTo(steps, "delete_terraform_tfstate_secret") = {}
    /\ ~Given.ok

----------------------------------------------------------------------------
(* C26: a SelfHosted on_delete makes one external call, the cleanup of the *)
(* release named helm_release_name(): it renders nothing, calls no         *)
(* terraform and deletes no secret; it returns Ok exactly when the cleanup *)
(* succeeded.                                                              *)

C26_SelfHostedDeleteOnlyCleans ==
    Ran("on_delete", "SelfHosted") =>
        /\ Len(Calls(steps)) = 1
        /\ Calls(steps)[1].function = "do_stateless_service_cleanup"
        /\ Calls(steps)[1].arguments.helm_release_name = HelmReleaseNameOf(Unwrap(service))
        /\ Given.ok <=> Calls(steps)[1].result.ok

\* the cleanup fails and so does on_delete
C26_Witness ==
    /\ Ran("on_delete", "SelfHosted")
    /\ ~Calls(steps)[1].result.ok
    /\ ~Given.ok

----------------------------------------------------------------------------
(* C27: on_pause, on_pause_check and on_pause_error take either target,    *)
(* make no external call, change nothing and return Ok.                    *)

PauseHooks == {"on_pause", "on_pause_check", "on_pause_error"}

\* this step is a call of one of the hooks
Calling(hooks) ==
    /\ Len(called') = Len(called) + 1
    /\ called'[Len(called')].hook \in hooks

C27_PauseDoesNothing ==
    [][Calling(PauseHooks) =>
           /\ Calls(steps') = Calls(steps)
           /\ service' = service
           /\ lpc' = "returned"
           /\ ret' = Some([ok |-> TRUE, val |-> <<>>])]_vars

\* on_pause on a ManagedServices target, after an on_create that made calls
C27_Witness ==
    /\ RanLast("on_pause")
    /\ called[Len(called)].target = Some("ManagedServices")
    /\ Len(called) = 2
    /\ called[1].hook = "on_create"
    /\ Len(Calls(steps)) >= 2
    /\ Given.ok

----------------------------------------------------------------------------
(* C28: the hooks that are not implemented (upgrade, downgrade, backup,    *)
(* restore, clone, their _check and _error) return a NotImplemented error  *)
(* to the caller, abort nothing and make no external call.                 *)

C28_NotImplementedIsReturned ==
    (called # <<>> /\ called[Len(called)].hook \in UnimplementedHooks) =>
        /\ lpc = "returned"
        /\ ret # None
        /\ ~Given.ok
        /\ Given.val.cause = "NotImplemented"
        /\ Calls(steps) = <<>>

----------------------------------------------------------------------------
(* C29: on_create_error, on_delete_error and on_pause_error only log: on   *)
(* either target they make no external call, undo none of the steps of     *)
(* the action that failed, and return Ok.                                  *)

ErrorHooks == {"on_create_error", "on_delete_error", "on_pause_error"}

C29_ErrorHooksOnlyLog ==
    [][Calling(ErrorHooks) =>
           /\ Len(steps') = Len(steps) + 1
           /\ SubSeq(steps', 1, Len(steps)) = steps
           /\ IsLogLine(steps'[Len(steps')])
           /\ service' = service
           /\ ret' = Some([ok |-> TRUE, val |-> <<>>])]_vars

\* on_create_error after an on_create that upgraded the release and then
\* saw the pods not ready: the steps stay as they were
C29_Witness ==
    /\ RanLast("on_create_error")
    /\ Len(called) = 2
    /\ called[1] = [hook |-> "on_create", target |-> Some("SelfHosted")]
    /\ \E i \in CallsTo(steps, "kubectl_exec_is_pod_ready_with_retry") : ~PodIsReady(steps[i])
    /\ Len(Calls(steps)) = 8
    /\ Given.ok

----------------------------------------------------------------------------
(* C30: on a SelfHosted on_create the namespace is created with the one    *)
(* label "ttl", valued with the expiration in seconds, if and only if the  *)
(* context declares a resource expiration, and with no labels otherwise;   *)
(* the render context holds resource_expiration_in_seconds if and only if  *)
(* the context declares one.                                               *)

C30_TtlIffExpiration ==
    Ran("on_create", "SelfHosted") =>
        LET expiration == Unwrap(service).context.resource_expiration_in_seconds
        IN  /\ \A i \in CallsTo(steps, "kubectl_exec_create_namespace") :
                   IF expiration # None
                   THEN steps[i].arguments.labels = Some(<<[name |-> <<"t", "t", "l">>, value |-> NatToString(Unwrap(expiration))]>>)
                   ELSE steps[i].arguments.labels = None
            /\ \A i \in CallsTo(steps, "generate_and_copy_all_files_into_dir") :
                   "resource_expiration_in_seconds" \in DOMAIN steps[i].arguments.context <=> expiration # None

\* an expiration of 3600 seconds: the label ttl = "3600", the key in the render context
C30_Witness ==
    /\ Ran("on_create", "SelfHosted")
    /\ Unwrap(service).context.resource_expiration_in_seconds = Some(3600)
    /\ \E i \in CallsTo(steps, "kubectl_exec_create_namespace") :
           steps[i].arguments.labels = Some(<<[name |-> <<"t", "t", "l">>, value |-> <<"3", "6", "0", "0">>]>>)
    /\ \E i \in CallsTo(steps, "generate_and_copy_all_files_into_dir") :
           steps[i].arguments.context["resource_expiration_in_seconds"] = Some(3600)

----------------------------------------------------------------------------
(* C31: on a ManagedServices on_delete whose four renders and terraform    *)
(* destroy succeeded, on_delete returns Ok whether the deletion of the     *)
(* tfstate secret succeeded or failed: the result of that deletion is      *)
(* discarded and reaches neither the return value nor the log.             *)

\* the four renders and the destroy of this run all succeeded
DestroySucceeded ==
    /\ Cardinality(CallsTo(steps, "generate_and_copy_all_files_into_dir")) = 4
    /\ \A i \in CallsTo(steps, "generate_and_copy_all_files_into_dir") : steps[i].result.ok
    /\ \E i \in CallsTo(steps, "terraform_exec_with_init_plan_apply_destroy") : steps[i].result.ok

C31_SecretFailureIsDiscarded ==
    Ran("on_delete", "ManagedServices") /\ DestroySucceeded =>
        /\ Given = Ok(<<>>)
        /\ \A j \in CallsTo(steps, "delete_terraform_tfstate_secret") : j = Len(steps)
        /\ \A j \in 1..Len(steps) :
               IsLogLine(steps[j]) /\ steps[j].level = "error" => j > 1 /\ IsContextCall(steps[j - 1]) /\ ~steps[j - 1].result.ok

\* the destroy succeeded, the deletion of the secret failed, on_delete returned Ok
C31_Witness ==
    /\ Ran("on_delete", "ManagedServices")
    /\ DestroySucceeded
    /\ \E j \in CallsTo(steps, "delete_terraform_tfstate_secret") : ~steps[j].result.ok
    /\ Given.ok

----------------------------------------------------------------------------
(* C32: on every hook that renders (on_create of either target, on_delete  *)
(* of a ManagedServices target), tera_context has built the render         *)
(* context before any template is rendered; on a SelfHosted                *)
(* on_create every labelled creation of the namespace comes after a        *)
(* creation of the namespace without labels; and when tera_context fails   *)
(* to obtain the config path, the failure is only logged and the render    *)
(* that follows tera_context still runs.                                   *)

\* a hook that renders has run alone and returned
RanRendering ==
    /\ lpc = "returned"
    /\ Len(called) = 1
    /\ called[1].hook = "on_create" \/ called[1] = [hook |-> "on_delete", target |-> Some("ManagedServices")]

\* every render comes after tera_context asked for the config path
ContextBeforeRenders ==
    \A i \in CallsTo(steps, "generate_and_copy_all_files_into_dir") :
        \E j \in CallsTo(steps, "get_kubernetes_config_path") : j < i

\* every labelled creation of the namespace comes after one without labels
UnlabelledBeforeLabelled ==
    \A i \in CallsTo(steps, "kubectl_exec_create_namespace") :
        \E j \in CallsTo(steps, "create_namespace_without_labels") : j < i

\* a config path that tera_context could not obtain is logged, and the hook goes on to its next call
ConfigPathFailureOnlyLogged ==
    \A j \in CallsTo(steps, "get_kubernetes_config_path") :
        ~steps[j].result.ok =>
            /\ Len(steps) > j + 1
            /\ IsLogLine(steps[j + 1]) /\ steps[j + 1].level = "error"
            /\ IsBodyCall(steps[j + 2])
            /\ Given.ok \/ Given.val.message # steps[j].result.val.message \/ \E i \in (j + 2)..Len(steps) : IsCall(steps[i]) /\ ~steps[i].result.ok

C32_UnlabelledNamespaceFirst ==
    RanRendering =>
        /\ ContextBeforeRenders
        /\ Ran("on_create", "SelfHosted") => UnlabelledBeforeLabelled
        /\ ConfigPathFailureOnlyLogged

----------------------------------------------------------------------------
(* C33: get_supported_version_to_use looks at the first three components   *)
(* of the request only: a request with four or more components resolves    *)
(* to the same version as its first three components joined by dots, and   *)
(* fails when they fail; a request of two or three components whose last   *)
(* one is empty is looked up under itself, the empty component included,   *)
(* which is no key of the catalog, and fails as not supported.             *)

\* the first three components of a request that has more, joined again
FirstThree(version) == Format3(Split(version)[1], Split(version)[2], Split(version)[3])

\* the request has two or three components and the last one is empty
EndsWithEmptyComponent(version) ==
    /\ Len(Split(version)) \in {2, 3}
    /\ Split(version)[Len(Split(version))] = <<>>

C33_FirstThreeComponents ==
    Done =>
        /\ Len(Split(req)) >= 4 =>
               LET prefix == GetSupportedVersionToUse(name, supported, FirstThree(req))
               IN  /\ Result.ok <=> prefix.ok
                   /\ Result.ok => Result.val = prefix.val
                   /\ Unwrap(parsed) = GetVersionNumber(FirstThree(req))
        /\ EndsWithEmptyComponent(req) =>
               /\ Unwrap(parsed).ok
               /\ Unwrap(parsed).val.minor = Some(<<>>) \/ Unwrap(parsed).val.patch = Some(<<>>)
               /\ req \notin DOMAIN supported
               /\ Result = Err(NotSupported(name, req))

\* "8.0.21.5" asked of the managed MySQL catalog resolves to "8.0.21", as "8.0.21" does
C33_Witness ==
    /\ Done
    /\ fn = "mysql_managed"
    /\ req = <<"8", ".", "0", ".", "2", "1", ".", "5">>
    /\ FirstThree(req) = <<"8", ".", "0", ".", "2", "1">>
    /\ Result = Ok(<<"8", ".", "0", ".", "2", "1">>)

----------------------------------------------------------------------------
(* C34: the managed MySQL catalog is a restriction of the self-hosted one: *)
(* a request that get_mysql_version resolves as a managed service resolves *)
(* self-hosted too, to the same version; the two answers differ exactly on *)
(* the denylisted patch versions, which only the self-hosted catalog       *)
(* resolves, and, when both refuse, in the name the message gives the      *)
(* database.                                                               *)

\* what get_mysql_version answers to a request in one mode
MysqlAnswer(requested_version, is_managed_service) ==
    GetSupportedVersionToUse(MysqlName(is_managed_service), ExtendAll(EmptyMap, MysqlRanges(is_managed_service)), requested_version)

C34_ManagedRestrictsSelfHosted ==
    (Done /\ fn \in {"mysql", "mysql_managed"}) =>
        LET managed == MysqlAnswer(req, TRUE)
            self_hosted == MysqlAnswer(req, FALSE)
        IN  /\ Result = IF fn = "mysql_managed" THEN managed ELSE self_hosted
            /\ managed.ok => self_hosted = managed
            /\ (self_hosted.ok /\ ~managed.ok) <=> req \in ManagedDenylist
            /\ ~managed.ok => managed.val = NotSupported(NameRDSMySQL, req)
            /\ ~self_hosted.ok => self_hosted.val = NotSupported(NameMySQL, req)
            /\ \A k \in DOMAIN ExtendAll(EmptyMap, MysqlRanges(TRUE)) :
                   /\ k \in DOMAIN ExtendAll(EmptyMap, MysqlRanges(FALSE))
                   /\ ExtendAll(EmptyMap, MysqlRanges(TRUE))[k] = ExtendAll(EmptyMap, MysqlRanges(FALSE))[k]

\* "8.0" asked as a managed service resolves to "8.0.21", and self-hosted to the same
C34_Witness ==
    /\ Done
    /\ fn = "mysql_managed"
    /\ req = <<"8", ".", "0">>
    /\ Result = Ok(<<"8", ".", "0", ".", "2", "1">>)
    /\ MysqlAnswer(req, FALSE) = Result

====
